---- MODULE Spec2Model ----
(***************************************************************************)
(* A model of backend/legal_ai.py, class LegalAIAssistant: the document    *)
(* classifier, the entity extractor, the law selector, the analysis        *)
(* composer, process_legal_query, the translation cache and               *)
(* handle_translation_request.                                             *)
(*                                                                         *)
(* A document is a sequence of segments; a segment is a line of the line   *)
(* vocabulary repeated reps times; the text handed to the code is the      *)
(* lines joined by "\n" (Render).  Floats are modelled as exact ratios.    *)
(*                                                                         *)
(* The strings of the translation part are TLA+ strings, which hold ASCII  *)
(* only: a character outside ASCII is written ~hhhh, the four hexadecimal  *)
(* digits of its code point (CodePointsOf reads the notation back); the    *)
(* characters ~ and ` are written ~007e and ~0060.                         *)
(***************************************************************************)
EXTENDS Integers, Sequences, FiniteSets, TLC

VARIABLES
    call,                   \* the request in progress: the operation and its arguments
    ret,                    \* what the operation returned or raised
    clock,                  \* datetime.now(), in seconds
    tempFiles,              \* the files of temp/
    transformers,           \* TRANSFORMERS_AVAILABLE
    translation_cache,      \* self.translation_cache
    translation_model,      \* self.translation_model
    translation_tokenizer,  \* self.translation_tokenizer
    cache_file,             \* the content of self.cache_file on disk
    steps,                  \* the steps of handle_translation_request the call went through
    model_loads,            \* how many times from_pretrained has returned the model
    file_writes,            \* how many times self.cache_file has been opened for writing
    callers                 \* the position of each concurrent caller in handle_translation_request

translationVars ==
    <<transformers, translation_cache, translation_model, translation_tokenizer,
      cache_file, steps, model_loads, file_writes, callers>>

vars == <<call, ret, clock, tempFiles, translationVars>>

(***************************************************************************)
(* Bounds of the model.                                                    *)
(***************************************************************************)
MaxSegments == 2
MaxReps == 2
FillerWords == 110
MaxClock == 1
MaxWrites == 2
MaxFill == 21

(***************************************************************************)
(* Strings.                                                                *)
(***************************************************************************)
Min(a, b) == IF a <= b THEN a ELSE b

RECURSIVE RepeatStr(_, _)
RepeatStr(s, n) == IF n = 0 THEN "" ELSE s \o RepeatStr(s, n - 1)

StartsWith(s, p) == Len(s) >= Len(p) /\ SubSeq(s, 1, Len(p)) = p

EndsWith(s, p) == Len(s) >= Len(p) /\ SubSeq(s, Len(s) - Len(p) + 1, Len(s)) = p

Contains(s, p) ==
    \E i \in 1..(Len(s) - Len(p) + 1) : SubSeq(s, i, i + Len(p) - 1) = p

\* str.upper() on the ASCII letters
UpperOf ==
    [c \in {"a","b","c","d","e","f","g","h","i","j","k","l","m","n","o","p","q",
            "r","s","t","u","v","w","x","y","z"} |->
        CASE c = "a" -> "A" [] c = "b" -> "B" [] c = "c" -> "C" [] c = "d" -> "D"
          [] c = "e" -> "E" [] c = "f" -> "F" [] c = "g" -> "G" [] c = "h" -> "H"
          [] c = "i" -> "I" [] c = "j" -> "J" [] c = "k" -> "K" [] c = "l" -> "L"
          [] c = "m" -> "M" [] c = "n" -> "N" [] c = "o" -> "O" [] c = "p" -> "P"
          [] c = "q" -> "Q" [] c = "r" -> "R" [] c = "s" -> "S" [] c = "t" -> "T"
          [] c = "u" -> "U" [] c = "v" -> "V" [] c = "w" -> "W" [] c = "x" -> "X"
          [] c = "y" -> "Y" [] c = "z" -> "Z"]

RECURSIVE Upper(_)
Upper(s) ==
    IF s = "" THEN ""
    ELSE LET c == SubSeq(s, 1, 1)
         IN (IF c \in DOMAIN UpperOf THEN UpperOf[c] ELSE c)
                \o Upper(SubSeq(s, 2, Len(s)))

\* the folding of case that the (?i) flag of the patterns applies
LowerOf ==
    [c \in {UpperOf[x] : x \in DOMAIN UpperOf} |->
        CHOOSE x \in DOMAIN UpperOf : UpperOf[x] = c]

RECURSIVE Lower(_)
Lower(s) ==
    IF s = "" THEN ""
    ELSE LET c == SubSeq(s, 1, 1)
         IN (IF c \in DOMAIN LowerOf THEN LowerOf[c] ELSE c)
                \o Lower(SubSeq(s, 2, Len(s)))

(***************************************************************************)
(* self.document_patterns: the types in the order of the table, and the    *)
(* alternatives of each (?i)(a|b|...) pattern in their order.              *)
(***************************************************************************)
DocTypes ==
    <<"contract", "judgment", "legislation", "will", "affidavit", "notice",
      "legal_opinion", "mou">>

document_patterns ==
    [contract |-> <<"agreement", "contract", "terms", "conditions", "parties",
                    "clause", "hereby", "agree", "consideration">>,
     judgment |-> <<"judgment", "court", "ruling", "judge", "versus",
                    "petitioner", "respondent", "plaintiff", "defendant",
                    "bench", "justice", "order", "decree">>,
     legislation |-> <<"act", "section", "statute", "law", "regulation",
                       "provision", "legislature", "parliament", "amendment",
                       "clause", "bill">>,
     will |-> <<"testament", "will", "bequeath", "estate", "beneficiary",
                "executor", "probate", "heir", "inheritance", "devise",
                "legacy">>,
     affidavit |-> <<"affidavit", "sworn", "deponent", "oath", "affirm",
                     "verification", "notary", "attested">>,
     notice |-> <<"notice", "hereby", "inform", "attention", "pursuant",
                  "announce", "adjourned", "meeting">>,
     legal_opinion |-> <<"opinion", "advice", "counsel", "consult",
                         "recommended", "suggested", "pursuant to">>,
     mou |-> <<"memorandum", "understanding", "mou", "intent", "non-binding">>]

(***************************************************************************)
(* re.findall of an alternation of literals under (?i): scan from the      *)
(* left, at each position take the first alternative that matches there    *)
(* and continue after it, else move one character on.  The scan is cut     *)
(* into stretches of 8 positions to keep the recursion shallow.            *)
(***************************************************************************)
RECURSIVE FirstAlternative(_, _, _, _)
FirstAlternative(alts, s, i, k) ==
    IF k > Len(alts) THEN 0
    ELSE IF /\ i + Len(alts[k]) - 1 <= Len(s)
            /\ Lower(SubSeq(s, i, i + Len(alts[k]) - 1)) = alts[k]
         THEN Len(alts[k])
         ELSE FirstAlternative(alts, s, i, k + 1)

RECURSIVE ScanTo(_, _, _, _)
ScanTo(alts, s, i, stop) ==
    IF i > Len(s) \/ i > stop THEN [n |-> 0, next |-> i]
    ELSE LET k == FirstAlternative(alts, s, i, 1)
             r == ScanTo(alts, s, IF k > 0 THEN i + k ELSE i + 1, stop)
         IN [n |-> (IF k > 0 THEN 1 ELSE 0) + r.n, next |-> r.next]

RECURSIVE CountFrom(_, _, _)
CountFrom(alts, s, i) ==
    IF i > Len(s) THEN 0
    ELSE LET b == ScanTo(alts, s, i, i + 7)
         IN b.n + CountFrom(alts, s, b.next)

\* len(re.findall(pattern, line))
FindAllCount(alts, line) == CountFrom(alts, line, 1)

\* len(line.split()): the maximal runs of characters that are not whitespace
IsSpace(c) == c \in {" ", "\n", "\t", "\r", "\f"}

SplitCount(s) ==
    Cardinality({i \in 1..Len(s) :
                    /\ ~IsSpace(SubSeq(s, i, i))
                    /\ (i = 1 \/ IsSpace(SubSeq(s, i - 1, i - 1)))})

(***************************************************************************)
(* The documents.  Every line ends so that no pattern of the code matches  *)
(* across a line break: the document patterns hold no "\n", and the lines  *)
(* that end in a digit are closed by a full stop.                          *)
(***************************************************************************)
BlankLine == " "
HerebyLine == "hereby"
CourtLine == "the court order is hereby made"
GarbledLine == "xx## 12 ??"
EntityLine == "Contact John Smith at john.smith@example.com or call 555-123-4567 before 12/31/2024 to pay $500 or 10% under Section 4."
SellerLine == "termination of the seller warranty"
JudgeLine == "Justice Sharma of the Supreme Court applied the Act of 1872."
FillerLine == "qq" \o RepeatStr(" qq", FillerWords - 1)
\* a line of one hundred words, one of them a keyword
HundredLine == "hereby" \o RepeatStr(" qq", 99)

Lines ==
    {BlankLine, HerebyLine, CourtLine, GarbledLine, EntityLine, SellerLine,
     JudgeLine, FillerLine, HundredLine}

\* the documents made of up to MaxSegments segments of the given lines
Segments(lines) == [line : lines, reps : 1..MaxReps]

TextsOfLength(lines, n) == [1..n -> Segments(lines)]

TextsOver(lines) == UNION {TextsOfLength(lines, n) : n \in 0..MaxSegments}

\* the documents given to the classifier
ClassifierTexts ==
    TextsOver({BlankLine, HerebyLine, CourtLine, GarbledLine, EntityLine, JudgeLine,
               FillerLine, HundredLine})

\* the documents given to the entity extractor
EntityTexts == TextsOver({GarbledLine, EntityLine, SellerLine, JudgeLine})

\* the string the code receives
RECURSIVE Render(_)
Render(text) ==
    IF text = <<>> THEN ""
    ELSE LET s == Head(text)
             rest == IF s.reps = 1 THEN Tail(text)
                     ELSE <<[s EXCEPT !.reps = s.reps - 1]>> \o Tail(text)
         IN IF rest = <<>> THEN s.line ELSE s.line \o "\n" \o Render(rest)

\* the lines of a document, one entry for each repetition
RECURSIVE LinesOf(_)
LinesOf(text) ==
    IF text = <<>> THEN <<>>
    ELSE [i \in 1..Head(text).reps |-> Head(text).line] \o LinesOf(Tail(text))

\* per line: len(re.findall(pattern, line)) of every document pattern
LineMatches ==
    [l \in Lines |->
        [k \in 1..Len(DocTypes) |-> FindAllCount(document_patterns[DocTypes[k]], l)]]

\* per line: len(line.split())
LineWords == [l \in Lines |-> SplitCount(l)]

RECURSIVE SumOver(_, _)
SumOver(text, f) ==
    IF text = <<>> THEN 0
    ELSE Head(text).reps * f[Head(text).line] + SumOver(Tail(text), f)

\* len(re.findall(self.document_patterns[DocTypes[k]], text))
MatchCount(text, k) == SumOver(text, [l \in Lines |-> LineMatches[l][k]])

\* len(text.split())
WordCount(text) == SumOver(text, LineWords)

(***************************************************************************)
(* Floats as exact ratios num/den, den > 0.                                *)
(***************************************************************************)
Ratio(n, d) == [num |-> n, den |-> d]

RatLess(a, b) == a.num * b.den < b.num * a.den

RatEq(a, b) == a.num * b.den = b.num * a.den

RatOne == Ratio(1, 1)

RatZero == Ratio(0, 1)

\* min(score, 1.0): the first argument unless the second is smaller
NoCap(score) == score
CapAtOne(score) == IF RatLess(RatOne, score) THEN RatOne ELSE score

(***************************************************************************)
(* _identify_document_type                                                 *)
(***************************************************************************)
\* score = len(matches) / (len(text.split()) / 100), then the cap;
\* called only with WordCount(text) > 0
ScoreOf(text, k) == CapAtOne(Ratio(100 * MatchCount(text, k), WordCount(text)))

\* the dict scores, by position in the pattern table
Scores(text) == [k \in 1..Len(DocTypes) |-> ScoreOf(text, k)]

\* max(scores, key=scores.get): the first key, in the order of the dict,
\* whose value no other value exceeds
RECURSIVE LastMaxFrom(_, _, _)
LastMaxFrom(scores, k, best) ==
    IF k > Len(scores) THEN best
    ELSE LastMaxFrom(scores, k + 1,
                     IF RatLess(scores[k], scores[best]) THEN best ELSE k)

RECURSIVE FirstMaxFrom(_, _, _)
FirstMaxFrom(scores, k, best) ==
    IF k > Len(scores) THEN best
    ELSE FirstMaxFrom(scores, k + 1,
                      IF RatLess(scores[best], scores[k]) THEN k ELSE best)

MaxKeyLast(scores) == LastMaxFrom(scores, 2, 1)
MaxKey(scores) == FirstMaxFrom(scores, 2, 1)

Returned(v) == [raised |-> "none", value |-> v]

Raised(e) == [raised |-> e, value |-> <<>>]

_identify_document_type(text) ==
    IF Len(DocTypes) > 0 /\ WordCount(text) = 0
    THEN Raised("ZeroDivisionError")
    ELSE LET scores == Scores(text)
             best == MaxKey(scores)
         IN IF Len(scores) = 0
            THEN Returned([doc_type |-> "unknown", confidence |-> RatZero])
            ELSE Returned([doc_type |-> DocTypes[best], confidence |-> scores[best]])

(***************************************************************************)
(* The state: the last call and what it returned or raised, the clock of   *)
(* datetime.now() in seconds, and the files written under temp/.           *)
(***************************************************************************)
NoCall == [op |-> "init", text |-> <<>>, doc_type |-> "", jurisdiction |-> "", language |-> ""]

\* the dict {}
EmptyCache == [key \in {} |-> ""]

\* the cache file does not exist
NoFile == [exists |-> FALSE, content |-> <<>>]

\* nobody is inside handle_translation_request
NoCallers == [c \in {} |-> ""]

\* a new assistant in a directory without a cache file
NewAssistant ==
    /\ call = NoCall
    /\ ret = Returned(<<>>)
    /\ clock = 0
    /\ tempFiles = {}
    /\ translation_cache = EmptyCache
    /\ translation_model = "None"
    /\ translation_tokenizer = "None"
    /\ cache_file = NoFile
    /\ steps = <<>>
    /\ model_loads = 0
    /\ file_writes = 0
    /\ callers = NoCallers

\* the transformers library is not installed
Init ==
    /\ NewAssistant
    /\ transformers = FALSE

\* the core runs one request to completion before the next is considered
Idle == call.op = "init"

\* the caller takes the result; the assistant waits for the next request
Return ==
    /\ ~Idle
    /\ call' = NoCall
    /\ ret' = Returned(<<>>)
    /\ steps' = <<>>
    /\ UNCHANGED <<clock, tempFiles, transformers, translation_cache, translation_model,
                   translation_tokenizer, cache_file, model_loads, file_writes, callers>>

IdentifyDocumentType ==
    /\ Idle
    /\ \E text \in ClassifierTexts :
        /\ call' = [NoCall EXCEPT !.op = "_identify_document_type", !.text = text]
        /\ ret' = _identify_document_type(text)
    /\ UNCHANGED <<clock, tempFiles, translationVars>>

(***************************************************************************)
(* _extract_legal_entities                                                 *)
(***************************************************************************)
\* the keys of patterns, in the order of the dict
GenericEntityTypes ==
    <<"date", "money", "person", "organization", "address", "phone", "email",
      "url", "clause", "percentage">>

ContractEntityTypes ==
    <<"party", "effective_date", "termination", "governing_law", "indemnity",
      "warranty">>

JudgmentEntityTypes == <<"citation", "court", "judge", "statute">>

\* patterns after the update for the document type
SpecificFirst(doc_type) ==
    (IF doc_type = "contract" THEN ContractEntityTypes
     ELSE IF doc_type = "judgment" THEN JudgmentEntityTypes
     ELSE <<>>) \o GenericEntityTypes
EntityTypesFor(doc_type) ==
    GenericEntityTypes \o
        (IF doc_type = "contract" THEN ContractEntityTypes
         ELSE IF doc_type = "judgment" THEN JudgmentEntityTypes
         ELSE <<>>)

\* [m.group() for m in re.finditer(patterns[entity_type], line)], for the
\* lines of the vocabulary
LineFindIter(entity_type, line) ==
    CASE line = EntityLine /\ entity_type = "date" -> <<"12/31/2024">>
      [] line = EntityLine /\ entity_type = "money" -> <<"$500">>
      [] line = EntityLine /\ entity_type = "person" -> <<"Contact John Smith">>
      [] line = EntityLine /\ entity_type = "phone" -> <<"555-123-4567">>
      [] line = EntityLine /\ entity_type = "email" -> <<"john.smith@example.com">>
      [] line = EntityLine /\ entity_type = "clause" -> <<"Section 4">>
      [] line = EntityLine /\ entity_type = "percentage" -> <<"10%">>
      [] line = EntityLine /\ entity_type = "citation" -> <<"4567 before 12", "500 or 10">>
      [] line = SellerLine /\ entity_type = "party" -> <<"the seller">>
      [] line = SellerLine /\ entity_type = "termination" -> <<"termination">>
      [] line = SellerLine /\ entity_type = "warranty" -> <<"warranty">>
      [] line = JudgeLine /\ entity_type = "person" -> <<"Justice Sharma", "Supreme Court">>
      [] line = JudgeLine /\ entity_type = "court" -> <<"Supreme Court">>
      [] line = JudgeLine /\ entity_type = "judge" -> <<"Justice Sharma">>
      [] line = JudgeLine /\ entity_type = "statute" -> <<"Act of 1872">>
      [] OTHER -> <<>>

RECURSIVE Flatten(_)
Flatten(seqs) == IF seqs = <<>> THEN <<>> ELSE Head(seqs) \o Flatten(Tail(seqs))

\* re.finditer(pattern, text): the matches from left to right
FindIter(entity_type, text) ==
    LET ls == LinesOf(text)
    IN Flatten([i \in 1..Len(ls) |-> LineFindIter(entity_type, ls[i])])

\* the inner loop: one entity for each match that is not empty
EntitiesOfType(entity_type, text) ==
    LET ms == SelectSeq(FindIter(entity_type, text), LAMBDA m : m # "")
    IN [i \in 1..Len(ms) |-> [word |-> ms[i], entity |-> Upper(entity_type)]]

\* entities[:20]
MaxEntities == 20

NoLimit(entities) == entities
FirstTwenty(entities) == SubSeq(entities, 1, Min(MaxEntities, Len(entities)))

_extract_legal_entities(text, doc_type) ==
    LET types == EntityTypesFor(doc_type)
    IN FirstTwenty(Flatten([k \in 1..Len(types) |-> EntitiesOfType(types[k], text)]))

\* the document types a caller can pass
AllDocTypes == {DocTypes[k] : k \in 1..Len(DocTypes)} \cup {"unknown", "deed"}

\* one document type for each way the extractor treats them
ExtractDocTypes == {"contract", "judgment", "will", "unknown"}

ExtractLegalEntities ==
    /\ Idle
    /\ \E text \in EntityTexts, doc_type \in ExtractDocTypes :
        /\ call' = [NoCall EXCEPT !.op = "_extract_legal_entities", !.text = text,
                                  !.doc_type = doc_type]
        /\ ret' = Returned(_extract_legal_entities(text, doc_type))
    /\ UNCHANGED <<clock, tempFiles, translationVars>>

(***************************************************************************)
(* _get_applicable_laws                                                    *)
(***************************************************************************)
legal_frameworks ==
    [india |->
        [civil |-> <<"Code of Civil Procedure, 1908", "Indian Contract Act, 1872",
                     "Transfer of Property Act, 1882", "Specific Relief Act, 1963",
                     "Indian Evidence Act, 1872">>,
         criminal |-> <<"Indian Penal Code, 1860", "Code of Criminal Procedure, 1973",
                        "Criminal Law Amendment Act">>,
         commercial |-> <<"Companies Act, 2013", "Insolvency and Bankruptcy Code, 2016",
                          "Competition Act, 2002", "Foreign Exchange Management Act, 1999">>,
         property |-> <<"Registration Act, 1908",
                        "Real Estate (Regulation and Development) Act, 2016">>,
         family |-> <<"Hindu Marriage Act, 1955", "Special Marriage Act, 1954",
                      "Indian Succession Act, 1925">>],
     us |->
        [civil |-> <<"Federal Rules of Civil Procedure", "Uniform Commercial Code">>,
         criminal |-> <<"Federal Criminal Code and Rules", "Model Penal Code">>,
         commercial |-> <<"Securities Act of 1933", "Securities Exchange Act of 1934",
                          "Sarbanes-Oxley Act">>]]

category_map ==
    [contract |-> <<"civil", "commercial">>,
     judgment |-> <<"civil", "criminal">>,
     legislation |-> <<>>,
     will |-> <<"civil", "family">>,
     affidavit |-> <<"civil", "criminal">>,
     notice |-> <<"civil", "commercial">>,
     legal_opinion |-> <<"civil", "commercial">>,
     mou |-> <<"commercial">>]

\* self.legal_frameworks.get(jurisdiction, {})
JurisdictionData(jurisdiction) ==
    IF jurisdiction \in DOMAIN legal_frameworks THEN legal_frameworks[jurisdiction]
    ELSE [c \in {} |-> <<>>]

\* category_map.get(doc_type, [])
CategoriesOf(doc_type) ==
    IF doc_type \in DOMAIN category_map THEN category_map[doc_type] ELSE <<>>

\* the loop that extends applicable_laws with the lists of the categories
\* the jurisdiction has
CandidateLaws(doc_type, jurisdiction) ==
    LET data == JurisdictionData(jurisdiction)
        cats == CategoriesOf(doc_type)
    IN Flatten([i \in 1..Len(cats) |->
                    IF cats[i] \in DOMAIN data THEN data[cats[i]] ELSE <<>>])

\* random.sample(population, k): the elements at k distinct positions, in
\* any order; every such selection is a possible outcome
RandomChoices(population, k) ==
    {[i \in 1..k |-> population[f[i]]] : f \in [1..k -> 1..Len(population)]}
RandomSample(population, k) ==
    {[i \in 1..k |-> population[f[i]]] :
        f \in {g \in [1..k -> 1..Len(population)] :
                \A i, j \in 1..k : i # j => g[i] # g[j]}}

MaxLaws == 3

\* the set of the lists a call can return
_get_applicable_laws(doc_type, jurisdiction) ==
    LET applicable_laws == CandidateLaws(doc_type, jurisdiction)
    IN IF Len(applicable_laws) > MaxLaws
       THEN RandomSample(applicable_laws, MaxLaws)
       ELSE {applicable_laws}

Jurisdictions == {"india", "us", "uk"}

GetApplicableLaws ==
    /\ Idle
    /\ \E doc_type \in AllDocTypes, jurisdiction \in Jurisdictions :
        /\ call' = [NoCall EXCEPT !.op = "_get_applicable_laws", !.doc_type = doc_type,
                                  !.jurisdiction = jurisdiction]
        /\ \E laws \in _get_applicable_laws(doc_type, jurisdiction) :
                ret' = Returned(laws)
    /\ UNCHANGED <<clock, tempFiles, translationVars>>

(***************************************************************************)
(* _generate_legal_analysis and the templates of the document types        *)
(***************************************************************************)
_generate_contract_analysis(text) ==
    "This document appears to be a legal contract. Here's a detailed analysis:\n\n" \o
    "1. Contract Structure and Validity:\n" \o
    "   - The document contains standard contractual elements including parties' details, consideration clauses, terms of agreement, and signature requirements.\n" \o
    "   - The agreement appears to establish legally binding obligations between the parties under contract law principles.\n\n" \o
    "2. Key Legal Provisions:\n" \o
    "   - Terms and conditions governing the relationship between parties are outlined with specific performance requirements.\n" \o
    "   - Liability provisions and risk allocation measures are included to protect the parties' interests.\n" \o
    "   - Termination mechanisms and conditions for contract renewal are specified.\n\n" \o
    "3. Rights and Obligations:\n" \o
    "   - The respective duties of each party are delineated with specific performance metrics and timelines.\n" \o
    "   - Compliance requirements with relevant laws and regulations are established.\n" \o
    "   - Remedy mechanisms in case of breach are provided with specific consequences.\n\n" \o
    "4. Legal Implications:\n" \o
    "   - The contract creates legally enforceable rights that can be upheld through legal proceedings if necessary.\n" \o
    "   - Under contract law, material breaches may entitle the non-breaching party to remedies including specific performance or damages.\n" \o
    "   - Ambiguous terms may be interpreted by courts according to standard principles of contractual interpretation."

_generate_judgment_analysis(text) ==
    "This document appears to be a legal judgment. Here's a detailed analysis:\n\n" \o
    "1. Judicial Findings:\n" \o
    "   - The court has ruled on specific legal questions presented in the case with binding authority.\n" \o
    "   - The judgment contains findings of fact based on evidence presented and legal conclusions applying relevant law.\n" \o
    "   - The court's reasoning demonstrates application of legal principles to the specific circumstances of the case.\n\n" \o
    "2. Legal Reasoning and Precedent:\n" \o
    "   - The court applies established legal principles and cites relevant statutory provisions and case law.\n" \o
    "   - The judgment may establish or reinforce legal precedent within the appropriate jurisdiction.\n" \o
    "   - The court distinguishes or applies existing case law to develop its reasoning.\n\n" \o
    "3. Relief Granted:\n" \o
    "   - The court awards specific remedies or relief to the prevailing party.\n" \o
    "   - The judgment specifies any monetary damages, equitable relief, or specific performance required.\n" \o
    "   - Terms for enforcement of the judgment are outlined with timeframes for compliance.\n\n" \o
    "4. Appeal Implications:\n" \o
    "   - The judgment may be subject to appeal within specified timeframes according to applicable procedural rules.\n" \o
    "   - Grounds for potential appeal would typically require identification of errors in law or procedure.\n" \o
    "   - The finality of the judgment depends on whether appeal periods have expired."

_generate_legislation_analysis(text) ==
    "This document appears to be legislation or a statutory instrument. Here's a detailed analysis:\n\n" \o
    "1. Legislative Purpose and Scope:\n" \o
    "   - The statute establishes legal rules, rights, and obligations within its defined jurisdiction and subject matter.\n" \o
    "   - The legislation identifies its purpose and the public policy objectives it seeks to achieve.\n" \o
    "   - Jurisdictional boundaries and application scope are defined, including territorial and temporal limitations.\n\n" \o
    "2. Statutory Provisions:\n" \o
    "   - The legislation contains definitional sections establishing key terms and concepts for interpretation.\n" \o
    "   - Substantive provisions create rights, obligations, prohibitions, and permissions for affected parties.\n" \o
    "   - Administrative mechanisms and procedural requirements for implementation are established.\n\n" \o
    "3. Compliance Requirements:\n" \o
    "   - The statute imposes specific compliance obligations on affected individuals, businesses, or organizations.\n" \o
    "   - Penalties and enforcement mechanisms for non-compliance are specified with relevant authorities.\n" \o
    "   - Transitional provisions may address the relationship between this law and previous legal frameworks.\n\n" \o
    "4. Legal Implications:\n" \o
    "   - The legislation may preempt or modify existing common law or statutory provisions in its field.\n" \o
    "   - Courts will interpret this legislation according to established principles of statutory interpretation.\n" \o
    "   - Constitutional or other higher-order legal principles may affect the interpretation and validity of certain provisions."

_generate_will_analysis(text) ==
    "This document appears to be a last will and testament. Here's a detailed analysis:\n\n" \o
    "1. Testamentary Capacity and Formalities:\n" \o
    "   - The document purports to be a valid will expressing the testator's intentions regarding asset distribution.\n" \o
    "   - Formal requirements including signature, witnesses, and attestation clauses appear to be addressed.\n" \o
    "   - The testator's capacity at the time of execution is a critical factor for validity.\n\n" \o
    "2. Asset Distribution:\n" \o
    "   - Specific bequests allocate particular assets or amounts to named beneficiaries.\n" \o
    "   - Residuary clauses address the distribution of remaining assets not specifically bequeathed.\n" \o
    "   - Contingent provisions may address scenarios such as beneficiaries predeceasing the testator.\n\n" \o
    "3. Administration Provisions:\n" \o
    "   - The will appoints executors/personal representatives with powers to administer the estate.\n" \o
    "   - Instructions regarding probate procedures and asset management are provided.\n" \o
    "   - Tax considerations and payment of debts and expenses are addressed.\n\n" \o
    "4. Legal Implications:\n" \o
    "   - The will becomes effective upon the testator's death and must be submitted for probate.\n" \o
    "   - Potential challenges could arise based on capacity, undue influence, fraud, or improper execution.\n" \o
    "   - Applicable succession laws may impact the interpretation and implementation of the will's provisions."

_generate_affidavit_analysis(text) ==
    "This document appears to be an affidavit. Here's a detailed analysis:\n\n" \o
    "1. Purpose and Structure:\n" \o
    "   - This sworn statement is made for official legal purposes and carries potential perjury consequences if false.\n" \o
    "   - The document identifies the deponent (affiant) and establishes their competence to make the statements.\n" \o
    "   - The affidavit follows standard format requirements with proper verification clauses.\n\n" \o
    "2. Factual Assertions:\n" \o
    "   - The deponent makes specific factual declarations under oath based on personal knowledge or information and belief.\n" \o
    "   - Supporting exhibits or documents may be referenced and incorporated into the affidavit.\n" \o
    "   - The statements are made with the understanding of their legal significance in proceedings.\n\n" \o
    "3. Authentication:\n" \o
    "   - The affidavit contains notarial or other official authentication verifying the deponent's identity.\n" \o
    "   - Proper execution through signature and oath or affirmation is essential to validity.\n" \o
    "   - The document follows jurisdictional requirements for affidavit formalities.\n\n" \o
    "4. Legal Implications:\n" \o
    "   - The affidavit constitutes evidence that may be used in legal proceedings subject to applicable rules.\n" \o
    "   - False statements could expose the deponent to criminal penalties for perjury or false swearing.\n" \o
    "   - The affidavit's weight as evidence may depend on factors such as specificity, corroboration, and credibility."

_generate_notice_analysis(text) ==
    "This document appears to be a legal notice. Here's a detailed analysis:\n\n" \o
    "1. Purpose and Type:\n" \o
    "   - The notice serves to formally inform specific parties of legal rights, obligations, or actions.\n" \o
    "   - It establishes formal communication for procedural or substantive legal purposes.\n" \o
    "   - The notice type (e.g., demand, statutory, termination) determines its specific legal effect.\n\n" \o
    "2. Content Requirements:\n" \o
    "   - The notice identifies relevant parties, subject matter, and the legal basis for the communication.\n" \o
    "   - Specific legal requirements for content appear to be addressed based on the notice type.\n" \o
    "   - Time-sensitive information and deadlines are stated with appropriate specificity.\n\n" \o
    "3. Service and Delivery:\n" \o
    "   - The method of delivery is designed to satisfy legal requirements for effective notice.\n" \o
    "   - Documentation of service may be required to establish proper notice was given.\n" \o
    "   - Timing requirements for advance notice appear to be addressed.\n\n" \o
    "4. Legal Implications:\n" \o
    "   - The notice triggers legal consequences, rights, or obligations specified by relevant law.\n" \o
    "   - Failure to respond appropriately may result in default or waiver of certain rights.\n" \o
    "   - The notice may be a prerequisite for subsequent legal proceedings or actions."

_generate_legal_opinion_analysis(text) ==
    "This document appears to be a legal opinion. Here's a detailed analysis:\n\n" \o
    "1. Structure and Purpose:\n" \o
    "   - This document provides professional legal analysis on specific questions or scenarios.\n" \o
    "   - It identifies the requesting party, relevant facts, and legal questions presented.\n" \o
    "   - The opinion serves to guide decision-making based on legal risk assessment.\n\n" \o
    "2. Legal Analysis:\n" \o
    "   - The opinion applies relevant statutory provisions, case law, and legal principles to the specific scenario.\n" \o
    "   - Alternative interpretations and potential outcomes are evaluated with probability assessments.\n" \o
    "   - Legal authorities are cited to support the reasoning and conclusions reached.\n\n" \o
    "3. Risk Assessment:\n" \o
    "   - The opinion identifies legal risks, ambiguities, and potential challenges to the proposed course of action.\n" \o
    "   - Recommendations for risk mitigation strategies are provided based on the legal analysis.\n" \o
    "   - Limitations and assumptions underlying the analysis are explicitly stated.\n\n" \o
    "4. Legal Implications:\n" \o
    "   - While the opinion provides guidance, ultimate decision-making responsibility remains with the client.\n" \o
    "   - The opinion may establish a basis for the 'advice of counsel' defense in certain circumstances.\n" \o
    "   - The analysis is time-specific and subject to change based on legal developments or factual changes."

_generate_mou_analysis(text) ==
    "This document appears to be a Memorandum of Understanding (MOU). Here's a detailed analysis:\n\n" \o
    "1. Nature and Enforceability:\n" \o
    "   - This document establishes a preliminary framework for a relationship between the parties.\n" \o
    "   - The MOU may contain both binding and non-binding provisions depending on specific language used.\n" \o
    "   - Its enforceability depends on whether essential elements of a contract are present and the parties' intent.\n\n" \o
    "2. Key Components:\n" \o
    "   - The document outlines the parties' shared understanding and objectives for potential collaboration.\n" \o
    "   - Preliminary terms, responsibilities, and contributions of each party are identified.\n" \o
    "   - The framework for developing a formal agreement may be established with timelines.\n\n" \o
    "3. Limitations and Conditions:\n" \o
    "   - Conditional language may limit legal obligations pending further negotiation or due diligence.\n" \o
    "   - Confidentiality provisions and intellectual property protections may be legally binding.\n" \o
    "   - Termination provisions outline how parties may exit the preliminary relationship.\n\n" \o
    "4. Legal Implications:\n" \o
    "   - Courts may enforce certain provisions if they demonstrate the parties' intent to be bound.\n" \o
    "   - Even if not fully enforceable, the MOU may create liability under doctrines such as promissory estoppel if relied upon.\n" \o
    "   - The MOU may establish good faith negotiation obligations toward a definitive agreement."

GenericAnalysis ==
    "This appears to be a legal document. Based on the content, here's a general analysis:\n\n" \o
    "1. Key points covered in the document include agreements between parties, obligations, rights, and potential legal implications.\n\n" \o
    "2. For a comprehensive understanding, I recommend consulting with a legal professional specialized in this area of law to interpret the specific implications for your situation.\n\n" \o
    "3. Before taking any action based on this document, ensure that you understand all terms and conditions, as legal documents often contain nuanced language with significant legal consequences."

AnalysisTemplate(doc_type, text) ==
    CASE doc_type = "contract" -> _generate_contract_analysis(text)
      [] doc_type = "judgment" -> _generate_judgment_analysis(text)
      [] doc_type = "legislation" -> _generate_legislation_analysis(text)
      [] doc_type = "will" -> _generate_will_analysis(text)
      [] doc_type = "affidavit" -> _generate_affidavit_analysis(text)
      [] doc_type = "notice" -> _generate_notice_analysis(text)
      [] doc_type = "legal_opinion" -> _generate_legal_opinion_analysis(text)
      [] doc_type = "mou" -> _generate_mou_analysis(text)
      [] OTHER -> GenericAnalysis

FrameworksHeader == "\n\nApplicable legal frameworks that may be relevant:\n"

\* for i, law in enumerate(applicable_laws, 1): analysis += f"{i}. {law}\n"
RECURSIVE NumberedFrom(_, _)
NumberedFrom(laws, i) ==
    IF i > Len(laws) THEN ""
    ELSE ToString(i) \o ". " \o laws[i] \o "\n" \o NumberedFrom(laws, i + 1)

HeaderAlways(applicable_laws) == FrameworksHeader \o NumberedFrom(applicable_laws, 1)
\* if applicable_laws: the header and the numbered list
FrameworksSection(applicable_laws) ==
    IF applicable_laws # <<>>
    THEN FrameworksHeader \o NumberedFrom(applicable_laws, 1)
    ELSE ""

DisclaimerOpening ==
    "DISCLAIMER: This analysis is provided for informational purposes only and should not be construed as legal advice."

Disclaimer ==
    "\n\n" \o DisclaimerOpening \o
    " Please consult with a qualified legal professional for advice specific to your situation."

\* the analysis, given the list the law selector returned for doc_type
DisclaimerOnlyWithoutLaws(doc_type, text, applicable_laws) ==
    AnalysisTemplate(doc_type, text) \o
        (IF applicable_laws # <<>> THEN FrameworksSection(applicable_laws) ELSE Disclaimer)
ComposeAnalysis(doc_type, text, applicable_laws) ==
    AnalysisTemplate(doc_type, text) \o FrameworksSection(applicable_laws) \o Disclaimer

\* the set of the strings a call can return: one for each outcome of
\* self._get_applicable_laws(doc_type), whose jurisdiction defaults to india
_generate_legal_analysis(doc_type, text) ==
    {ComposeAnalysis(doc_type, text, laws) : laws \in _get_applicable_laws(doc_type, "india")}

\* the documents of process_legal_query and of the composer, which does not
\* read the text
QueryLines == {BlankLine, GarbledLine, EntityLine, JudgeLine}

QueryTexts == {<<>>} \cup {<<[line |-> l, reps |-> 1]>> : l \in QueryLines}

GenerateLegalAnalysis ==
    /\ Idle
    /\ \E doc_type \in AllDocTypes, text \in QueryTexts :
        /\ call' = [NoCall EXCEPT !.op = "_generate_legal_analysis", !.doc_type = doc_type,
                                  !.text = text]
        /\ \E analysis \in _generate_legal_analysis(doc_type, text) :
                ret' = Returned(analysis)
    /\ UNCHANGED <<clock, tempFiles, translationVars>>

(***************************************************************************)
(* process_legal_query                                                     *)
(***************************************************************************)
doc_type_labels ==
    [contract |-> "Legal Contract",
     judgment |-> "Court Judgment",
     legislation |-> "Statutory Legislation",
     will |-> "Last Will and Testament",
     affidavit |-> "Legal Affidavit",
     notice |-> "Legal Notice",
     legal_opinion |-> "Legal Opinion",
     mou |-> "Memorandum of Understanding",
     unknown |-> "Legal Document"]

\* doc_type_labels.get(doc_type, "Legal Document")
LabelOf(doc_type) ==
    IF doc_type \in DOMAIN doc_type_labels THEN doc_type_labels[doc_type]
    ELSE "Legal Document"

\* datetime.now().strftime('%Y%m%d%H%M%S') at second clock of the run
Timestamp(now) == "202501010000" \o (IF now < 10 THEN "0" ELSE "") \o ToString(now)

ResponseAudioPath(language, now) ==
    "temp/response_" \o language \o "_" \o Timestamp(now) \o ".wav"

Languages == {"en", "hi"}

\* the set of the outcomes of a call at second now: the error of the
\* classifier, which nothing catches, or a response
process_legal_query(document_text, language, now) ==
    LET identified == _identify_document_type(document_text)
    IN IF identified.raised # "none" THEN {identified}
       ELSE LET doc_type == identified.value.doc_type
                entities == _extract_legal_entities(document_text, doc_type)
            IN {Returned([summary |-> text_response,
                          entities |-> entities,
                          audio_response |-> ResponseAudioPath(language, now),
                          confidence_score |-> identified.value.confidence,
                          document_type |-> LabelOf(doc_type),
                          language |-> language]) :
                    text_response \in _generate_legal_analysis(doc_type, document_text)}

ProcessLegalQueryOf(texts) ==
    /\ Idle
    /\ \E document_text \in texts, language \in Languages :
        /\ call' = [NoCall EXCEPT !.op = "process_legal_query", !.text = document_text,
                                  !.language = language]
        /\ \E outcome \in process_legal_query(document_text, language, clock) :
            /\ ret' = outcome
            /\ tempFiles' = IF outcome.raised = "none"
                            THEN tempFiles \cup {outcome.value.audio_response}
                            ELSE tempFiles
    /\ UNCHANGED <<clock, translationVars>>

ProcessLegalQuery == ProcessLegalQueryOf(QueryTexts)

\* a second passes
Tick ==
    /\ clock < MaxClock
    /\ clock' = clock + 1
    /\ UNCHANGED <<call, ret, tempFiles, translationVars>>

(***************************************************************************)
(* Strings, dicts and files of the translation part.                       *)
(***************************************************************************)
\* a dict is the sequence of its <<key, value>> items, in the order of the dict
HasKey(d, k) == \E i \in 1..Len(d) : d[i][1] = k

\* d[k] and d.get(k, default)
Get(d, k) == d[CHOOSE i \in 1..Len(d) : d[i][1] = k][2]

GetOr(d, k, default) == IF HasKey(d, k) THEN Get(d, k) ELSE default

\* str.find, from 1; 0 when p does not occur in s
FirstIndex(s, p) ==
    LET hits == {i \in 1..(Len(s) - Len(p) + 1) : SubSeq(s, i, i + Len(p) - 1) = p}
    IN IF hits = {} THEN 0 ELSE CHOOSE i \in hits : \A j \in hits : i <= j

\* s.replace(old, new), old not empty: the occurrences that do not overlap,
\* from left to right
RECURSIVE Replace(_, _, _)
Replace(s, old, new) ==
    LET i == FirstIndex(s, old)
    IN IF i = 0 THEN s
       ELSE SubSeq(s, 1, i - 1) \o new \o Replace(SubSeq(s, i + Len(old), Len(s)), old, new)

\* for eng_phrase, translated_phrase in phrases.items():
\*     text = text.replace(eng_phrase, translated_phrase)
\* from the i-th item on: the first half of the items, then the second half
\* on the text so changed; nothing is replaced in an empty text
RECURSIVE ReplaceEach(_, _, _)
ReplaceEach(text, phrases, i) ==
    IF i > Len(phrases) THEN text
    ELSE IF i = Len(phrases) THEN Replace(text, phrases[i][1], phrases[i][2])
    ELSE LET half == (i + Len(phrases)) \div 2
             temp_text == ReplaceEach(text, SubSeq(phrases, 1, half), i)
         IN IF temp_text = "" THEN "" ELSE ReplaceEach(temp_text, phrases, half + 1)

\* the printable characters of ASCII a TLA+ string can hold: those of the
\* codes 32 to 95 and those of the codes 97 to 126
AsciiLow == " !\"#$%&'()*+,-./0123456789:;<=>?@ABCDEFGHIJKLMNOPQRSTUVWXYZ[\\]^_"

AsciiHigh == "abcdefghijklmnopqrstuvwxyz{|}~"

\* ord() of the characters a TLA+ string holds as themselves
CodeOfChar ==
    [c \in {SubSeq(AsciiLow, i, i) : i \in 1..Len(AsciiLow)}
            \cup {SubSeq(AsciiHigh, i, i) : i \in 1..Len(AsciiHigh)} \cup {"\n", "\t"} |->
        CASE c = "\n" -> 10
          [] c = "\t" -> 9
          [] \E i \in 1..Len(AsciiLow) : SubSeq(AsciiLow, i, i) = c ->
                31 + (CHOOSE i \in 1..Len(AsciiLow) : SubSeq(AsciiLow, i, i) = c)
          [] OTHER -> 96 + (CHOOSE i \in 1..Len(AsciiHigh) : SubSeq(AsciiHigh, i, i) = c)]

HexDigits == "0123456789abcdef"

HexValue(c) == (CHOOSE i \in 1..16 : SubSeq(HexDigits, i, i) = c) - 1

\* the code points of a string of the model: ~hhhh is the character of code
\* point hhhh, any other character is itself
\* the first position from m on where a character of the string starts: one
\* that is not among the four digits after a "~"
CharStart(s, m) ==
    CHOOSE p \in m..(m + 4) :
        /\ \A d \in 1..4 : p - d < 1 \/ SubSeq(s, p - d, p - d) # "~"
        /\ \A q \in m..(p - 1) : \E d \in 1..4 : q - d >= 1 /\ SubSeq(s, q - d, q - d) = "~"

RECURSIVE CodePointsOf(_)
CodePointsOf(s) ==
    IF s = "" THEN <<>>
    ELSE IF Len(s) > 12
    THEN LET half == CharStart(s, Len(s) \div 2 + 1)
         IN CodePointsOf(SubSeq(s, 1, half - 1)) \o CodePointsOf(SubSeq(s, half, Len(s)))
    ELSE IF SubSeq(s, 1, 1) = "~"
         THEN <<4096 * HexValue(SubSeq(s, 2, 2)) + 256 * HexValue(SubSeq(s, 3, 3))
                  + 16 * HexValue(SubSeq(s, 4, 4)) + HexValue(SubSeq(s, 5, 5))>>
                \o CodePointsOf(SubSeq(s, 6, Len(s)))
         ELSE <<CodeOfChar[SubSeq(s, 1, 1)]>> \o CodePointsOf(SubSeq(s, 2, Len(s)))

HexDigit(n) == SubSeq(HexDigits, n + 1, n + 1)

Hex4(n) ==
    HexDigit(n \div 4096) \o HexDigit((n \div 256) % 16) \o HexDigit((n \div 16) % 16)
        \o HexDigit(n % 16)

\* the string of the model that has the given code points
RECURSIVE StringOf(_)
StringOf(cps) ==
    IF cps = <<>> THEN ""
    ELSE IF Len(cps) > 8
    THEN StringOf(SubSeq(cps, 1, Len(cps) \div 2))
            \o StringOf(SubSeq(cps, Len(cps) \div 2 + 1, Len(cps)))
    ELSE LET c == Head(cps)
         IN (IF c = 10 THEN "\n"
             ELSE IF c = 9 THEN "\t"
             ELSE IF c >= 32 /\ c <= 95 THEN SubSeq(AsciiLow, c - 31, c - 31)
             ELSE IF c >= 97 /\ c <= 125 THEN SubSeq(AsciiHigh, c - 96, c - 96)
             ELSE "~" \o Hex4(c))
            \o StringOf(Tail(cps))

(***************************************************************************)
(* json.dump(self.translation_cache, f, ensure_ascii=False, indent=2) into *)
(* a file opened with encoding utf-8, and json.load of such a file.  A     *)
(* file is the sequence of its bytes.                                      *)
(***************************************************************************)
Chars(s) == CodePointsOf(s)

\* json.encoder.py_encode_basestring: ESCAPE_DCT
EscapeChar(c) ==
    CASE c = 34 -> Chars("\\\"")
      [] c = 92 -> Chars("\\\\")
      [] c = 10 -> Chars("\\n")
      [] c = 13 -> Chars("\\r")
      [] c = 9 -> Chars("\\t")
      [] c = 8 -> Chars("\\b")
      [] c = 12 -> Chars("\\f")
      [] c < 32 -> Chars("\\u" \o Hex4(c))
      [] OTHER -> <<c>>

RECURSIVE EscapeChars(_)
EscapeChars(cps) ==
    IF cps = <<>> THEN <<>>
    ELSE IF Len(cps) > 8
    THEN EscapeChars(SubSeq(cps, 1, Len(cps) \div 2))
            \o EscapeChars(SubSeq(cps, Len(cps) \div 2 + 1, Len(cps)))
    ELSE EscapeChar(Head(cps)) \o EscapeChars(Tail(cps))

\* the chunk of a string: "..." with the escapes
EncodeString(cps) == <<34>> \o EscapeChars(cps) \o <<34>>

\* the chunks json.dump writes for the items of the cache from the n-th on;
\* order is the order of the dict
RECURSIVE ItemChunks(_, _, _)
ItemChunks(cache, order, n) ==
    IF n > Len(order) THEN <<>>
    ELSE IF Len(order) - n >= 4
    THEN LET half == (n + Len(order)) \div 2
         IN ItemChunks(cache, SubSeq(order, 1, half), n) \o ItemChunks(cache, order, half + 1)
    ELSE <<(IF n = 1 THEN Chars("\n  ") ELSE Chars(",\n  ")),
           EncodeString(CodePointsOf(order[n])),
           Chars(": "),
           EncodeString(CodePointsOf(cache[order[n]]))>>
         \o ItemChunks(cache, order, n + 1)

\* an order of the keys of the cache; json.load gives the same dict for
\* every order of the items
RECURSIVE KeyOrder(_)
KeyOrder(keys) ==
    IF keys = {} THEN <<>>
    ELSE LET k == CHOOSE x \in keys : TRUE
         IN <<k>> \o KeyOrder(keys \ {k})

\* json.encoder._make_iterencode: the chunks of a dict of strings, indent 2
JsonChunks(cache) ==
    IF DOMAIN cache = {} THEN <<Chars("{}")>>
    ELSE <<Chars("{")>> \o ItemChunks(cache, KeyOrder(DOMAIN cache), 1)
            \o <<Chars("\n"), Chars("}")>>

\* the code points the utf-8 codec cannot encode: the surrogates
Encodable(c) == ~(c >= 55296 /\ c <= 57343)

\* the bytes of a character in utf-8
Utf8Char(c) ==
    IF c < 128 THEN <<c>>
    ELSE IF c < 2048 THEN <<192 + (c \div 64), 128 + (c % 64)>>
    ELSE IF c < 65536 THEN <<224 + (c \div 4096), 128 + ((c \div 64) % 64), 128 + (c % 64)>>
    ELSE <<240 + (c \div 262144), 128 + ((c \div 4096) % 64), 128 + ((c \div 64) % 64),
           128 + (c % 64)>>

RECURSIVE Utf8Encode(_)
Utf8Encode(cps) ==
    IF cps = <<>> THEN <<>>
    ELSE IF Len(cps) > 8
    THEN Utf8Encode(SubSeq(cps, 1, Len(cps) \div 2))
            \o Utf8Encode(SubSeq(cps, Len(cps) \div 2 + 1, Len(cps)))
    ELSE Utf8Char(Head(cps)) \o Utf8Encode(Tail(cps))

\* f.write(chunk) for the chunks from the n-th on: a chunk the codec cannot
\* encode raises UnicodeEncodeError, and the chunks before it stay written
RECURSIVE WriteChunks(_, _)
WriteChunks(chunks, n) ==
    IF n > Len(chunks) THEN <<>>
    ELSE IF Len(chunks) - n >= 4
    THEN LET half == (n + Len(chunks)) \div 2
         IN IF \E m \in n..half : \E i \in 1..Len(chunks[m]) : ~Encodable(chunks[m][i])
            THEN WriteChunks(SubSeq(chunks, 1, half), n)
            ELSE WriteChunks(SubSeq(chunks, 1, half), n) \o WriteChunks(chunks, half + 1)
    ELSE IF \E i \in 1..Len(chunks[n]) : ~Encodable(chunks[n][i]) THEN <<>>
    ELSE Utf8Encode(chunks[n]) \o WriteChunks(chunks, n + 1)

\* _save_translation_cache: the file after the call; open(..., 'w')
\* truncates it, and the error of a write is printed and swallowed
_save_translation_cache(cache) ==
    [exists |-> TRUE, content |-> WriteChunks(JsonChunks(cache), 1)]

\* self.translation_cache[key] = value
Put(cache, key, value) ==
    [k \in DOMAIN cache \cup {key} |-> IF k = key THEN value ELSE cache[k]]

Failed == [ok |-> FALSE, value |-> <<>>, next |-> 0]

Parsed(value, next) == [ok |-> TRUE, value |-> value, next |-> next]

IsContinuation(bytes, i) == i <= Len(bytes) /\ bytes[i] >= 128 /\ bytes[i] <= 191

\* the character the utf-8 codec decodes at position i, and the position
\* after it; Failed for a sequence of bytes the codec rejects
DecodeChar(bytes, i) ==
    LET b == bytes[i]
    IN IF b < 128 THEN Parsed(b, i + 1)
       ELSE IF b >= 194 /\ b <= 223 /\ IsContinuation(bytes, i + 1)
       THEN Parsed((b - 192) * 64 + (bytes[i + 1] - 128), i + 2)
       ELSE IF b >= 224 /\ b <= 239 /\ IsContinuation(bytes, i + 1)
                /\ IsContinuation(bytes, i + 2)
       THEN LET c == (b - 224) * 4096 + (bytes[i + 1] - 128) * 64 + (bytes[i + 2] - 128)
            IN IF c < 2048 \/ ~Encodable(c) THEN Failed ELSE Parsed(c, i + 3)
       ELSE IF b >= 240 /\ b <= 244 /\ IsContinuation(bytes, i + 1)
                /\ IsContinuation(bytes, i + 2) /\ IsContinuation(bytes, i + 3)
       THEN LET c == (b - 240) * 262144 + (bytes[i + 1] - 128) * 4096
                        + (bytes[i + 2] - 128) * 64 + (bytes[i + 3] - 128)
            IN IF c < 65536 \/ c > 1114111 THEN Failed ELSE Parsed(c, i + 4)
       ELSE Failed

\* the value of a hexadecimal digit given by its code, -1 for another character
HexOfCode(c) ==
    IF c >= 48 /\ c <= 57 THEN c - 48
    ELSE IF c >= 97 /\ c <= 102 THEN c - 87
    ELSE IF c >= 65 /\ c <= 70 THEN c - 55
    ELSE 0 - 1

\* the character of the escape \uXXXX whose digits start at position i
UnicodeEscape(bytes, i) ==
    IF i + 3 > Len(bytes) \/ \E j \in i..(i + 3) : HexOfCode(bytes[j]) < 0 THEN Failed
    ELSE Parsed(4096 * HexOfCode(bytes[i]) + 256 * HexOfCode(bytes[i + 1])
                    + 16 * HexOfCode(bytes[i + 2]) + HexOfCode(bytes[i + 3]), i + 4)

\* json.decoder.py_scanstring at position i inside a string: the character
\* there, an escape undone, and the position after it
ScanChar(bytes, i) ==
    LET b == bytes[i]
    IN IF b < 32 THEN Failed
       ELSE IF b # 92 THEN DecodeChar(bytes, i)
       ELSE IF i + 1 > Len(bytes) THEN Failed
       ELSE LET e == bytes[i + 1]
            IN IF e = 117 THEN UnicodeEscape(bytes, i + 2)
               ELSE IF e \in {34, 92, 47} THEN Parsed(e, i + 2)
               ELSE IF e = 98 THEN Parsed(8, i + 2)
               ELSE IF e = 102 THEN Parsed(12, i + 2)
               ELSE IF e = 110 THEN Parsed(10, i + 2)
               ELSE IF e = 114 THEN Parsed(13, i + 2)
               ELSE IF e = 116 THEN Parsed(9, i + 2)
               ELSE Failed

Unclosed == [ok |-> FALSE, value |-> <<>>, next |-> 0, closed |-> FALSE]

\* the characters of a string from position i, at most n of them, after the
\* characters acc; closed when the closing quote was read.  ScanChars goes
\* on after the character c, ScanRuns after a run of eight characters and
\* ScanString after eight such runs, which keeps the recursion shallow.
RECURSIVE ScanChars(_, _, _, _)
AfterChar(bytes, c, acc, n) ==
    IF c.ok THEN ScanChars(bytes, c.next, Append(acc, c.value), n) ELSE Unclosed

ScanChars(bytes, i, acc, n) ==
    IF i > Len(bytes) THEN Unclosed
    ELSE IF bytes[i] = 34 THEN [ok |-> TRUE, value |-> acc, next |-> i + 1, closed |-> TRUE]
    ELSE IF n = 0 THEN [ok |-> TRUE, value |-> acc, next |-> i, closed |-> FALSE]
    ELSE AfterChar(bytes, ScanChar(bytes, i), acc, n - 1)

RECURSIVE ScanRuns(_, _, _, _)
AfterRun(bytes, run, n) ==
    IF ~run.ok \/ run.closed \/ n = 0 THEN run
    ELSE ScanRuns(bytes, run.next, run.value, n)

ScanRuns(bytes, i, acc, n) == AfterRun(bytes, ScanChars(bytes, i, acc, 8), n - 1)

\* json.decoder.py_scanstring after the opening quote: the characters up to
\* the closing quote, the escapes undone
RECURSIVE ScanString(_, _, _)
AfterRuns(bytes, runs) ==
    IF ~runs.ok THEN Failed
    ELSE IF runs.closed THEN Parsed(runs.value, runs.next)
    ELSE ScanString(bytes, runs.next, runs.value)

ScanString(bytes, i, acc) == AfterRuns(bytes, ScanRuns(bytes, i, acc, 8))

\* the position of the first byte from i on that is not JSON whitespace
RECURSIVE SkipWhitespace(_, _)
SkipWhitespace(bytes, i) ==
    IF i <= Len(bytes) /\ bytes[i] \in {32, 9, 10, 13} THEN SkipWhitespace(bytes, i + 1)
    ELSE i

ByteAt(bytes, i) == IF i <= Len(bytes) THEN bytes[i] ELSE 0 - 1

\* the items of a JSON object of strings from position i, which follows "{"
\* or ","; acc is the dict of the items before
RECURSIVE ScanItems(_, _, _)
ScanItems(bytes, i, acc) ==
    IF ByteAt(bytes, i) # 34 THEN Failed
    ELSE LET key == ScanString(bytes, i + 1, <<>>)
             colon == SkipWhitespace(bytes, key.next)
             quote == SkipWhitespace(bytes, colon + 1)
         IN IF ~key.ok \/ ByteAt(bytes, colon) # 58 \/ ByteAt(bytes, quote) # 34 THEN Failed
            ELSE LET value == ScanString(bytes, quote + 1, <<>>)
                     after == SkipWhitespace(bytes, value.next)
                     items == Put(acc, StringOf(key.value), StringOf(value.value))
                 IN IF ~value.ok THEN Failed
                    ELSE IF ByteAt(bytes, after) = 125 THEN Parsed(items, after + 1)
                    ELSE IF ByteAt(bytes, after) = 44
                    THEN ScanItems(bytes, SkipWhitespace(bytes, after + 1), items)
                    ELSE Failed

\* json.load of a file that holds an object of strings; Failed when the
\* bytes are not utf-8 or not one such JSON value
JsonLoad(bytes) ==
    LET open == SkipWhitespace(bytes, 1)
        first == SkipWhitespace(bytes, open + 1)
        object == IF ByteAt(bytes, open) # 123 THEN Failed
                  ELSE IF ByteAt(bytes, first) = 125 THEN Parsed([k \in {} |-> ""], first + 1)
                  ELSE ScanItems(bytes, first, [k \in {} |-> ""])
    IN IF object.ok /\ SkipWhitespace(bytes, object.next) > Len(bytes) THEN object
       ELSE Failed

\* _load_translation_cache where a file that does not parse leaves the map
\* as it was
LoadOrKeep(file) ==
    IF file.exists
    THEN LET loaded == JsonLoad(file.content)
         IN IF loaded.ok THEN loaded.value ELSE translation_cache
    ELSE [k \in {} |-> ""]

\* _load_translation_cache: the dict of the file, {} when there is no file
\* and {} when json.load raises
_load_translation_cache(file) ==
    IF file.exists
    THEN LET loaded == JsonLoad(file.content)
         IN IF loaded.ok THEN loaded.value ELSE [k \in {} |-> ""]
    ELSE [k \in {} |-> ""]

(***************************************************************************)
(* The tables of handle_translation_request.                               *)
(***************************************************************************)
\* self.language_code_map, in the order of the dict
language_code_map ==
    <<<<"en", "eng_Latn">>,
      <<"hi", "hin_Deva">>,
      <<"bn", "ben_Beng">>,
      <<"te", "tel_Telu">>,
      <<"mr", "mar_Deva">>,
      <<"ta", "tam_Taml">>,
      <<"ur", "urd_Arab">>,
      <<"gu", "guj_Gujr">>,
      <<"kn", "kan_Knda">>,
      <<"ml", "mal_Mlym">>,
      <<"or", "ory_Orya">>,
      <<"pa", "pan_Guru">>,
      <<"as", "asm_Beng">>,
      <<"mai", "mai_Deva">>,
      <<"sat", "sat_Olck">>,
      <<"ks", "kas_Arab">>,
      <<"ne", "npi_Deva">>,
      <<"sd", "snd_Arab">>,
      <<"kok", "kok_Deva">>,
      <<"doi", "doi_Deva">>,
      <<"mni", "mni_Beng">>,
      <<"sa", "san_Deva">>,
      <<"bo", "bod_Tibt">>>>

\* analysis_translations: for each language the phrases and their translations, in the
\* order of the dict
analysis_translations ==
    <<
      <<"hi",
        <<
          <<"Here's a detailed analysis:",
            "~092f~0939~093e~0902 ~090f~0915 ~0935~093f~0938~094d~0924~0943~0924 ~0935~093f~0936~094d~0932~0947~0937~0923 ~0939~0948:">>,
          <<"Contract Structure and Validity:",
            "~0905~0928~0941~092c~0902~0927 ~0938~0902~0930~091a~0928~093e ~0914~0930 ~0935~0948~0927~0924~093e:">>,
          <<"Key Legal Provisions:",
            "~092a~094d~0930~092e~0941~0916 ~0915~093e~0928~0942~0928~0940 ~092a~094d~0930~093e~0935~0927~093e~0928:">>,
          <<"Rights and Obligations:",
            "~0905~0927~093f~0915~093e~0930 ~0914~0930 ~0926~093e~092f~093f~0924~094d~0935:">>,
          <<"Legal Implications:",
            "~0915~093e~0928~0942~0928~0940 ~0928~093f~0939~093f~0924~093e~0930~094d~0925:">>,
          <<"Applicable legal frameworks that may be relevant:",
            "~092a~094d~0930~093e~0938~0902~0917~093f~0915 ~0915~093e~0928~0942~0928~0940 ~0922~093e~0902~091a~0947 ~091c~094b ~0938~0902~092c~0902~0927~093f~0924 ~0939~094b ~0938~0915~0924~0947 ~0939~0948~0902:">>,
          <<"DISCLAIMER:",
            "~0905~0938~094d~0935~0940~0915~0930~0923:">>,
          <<"This analysis is provided for informational purposes only",
            "~092f~0939 ~0935~093f~0936~094d~0932~0947~0937~0923 ~0915~0947~0935~0932 ~0938~0942~091a~0928~093e~0924~094d~092e~0915 ~0909~0926~094d~0926~0947~0936~094d~092f~094b~0902 ~0915~0947 ~0932~093f~090f ~092a~094d~0930~0926~093e~0928 ~0915~093f~092f~093e ~0917~092f~093e ~0939~0948">>,
          <<"and should not be construed as legal advice.",
            "~0914~0930 ~0907~0938~0947 ~0915~093e~0928~0942~0928~0940 ~0938~0932~093e~0939 ~0915~0947 ~0930~0942~092a ~092e~0947~0902 ~0928~0939~0940~0902 ~092e~093e~0928~093e ~091c~093e~0928~093e ~091a~093e~0939~093f~090f~0964">>,
          <<"Please consult with a qualified legal professional for advice specific to your situation.",
            "~0905~092a~0928~0940 ~0938~094d~0925~093f~0924~093f ~0915~0947 ~0932~093f~090f ~0935~093f~0936~093f~0937~094d~091f ~0938~0932~093e~0939 ~0915~0947 ~0932~093f~090f ~0915~0943~092a~092f~093e ~090f~0915 ~092f~094b~0917~094d~092f ~0915~093e~0928~0942~0928~0940 ~092a~0947~0936~0947~0935~0930 ~0938~0947 ~092a~0930~093e~092e~0930~094d~0936 ~0915~0930~0947~0902~0964">>,
          <<"The document contains standard contractual elements",
            "~0926~0938~094d~0924~093e~0935~0947~091c~093c ~092e~0947~0902 ~092e~093e~0928~0915 ~0905~0928~0941~092c~0902~0927 ~0924~0924~094d~0935 ~0936~093e~092e~093f~0932 ~0939~0948~0902">>,
          <<"including parties' details, consideration clauses, terms of agreement, and signature requirements.",
            "~091c~093f~0938~092e~0947~0902 ~092a~0915~094d~0937~094b~0902 ~0915~093e ~0935~093f~0935~0930~0923, ~0935~093f~091a~093e~0930 ~0916~0902~0921, ~0938~092e~091d~094c~0924~0947 ~0915~0940 ~0936~0930~094d~0924~0947~0902 ~0914~0930 ~0939~0938~094d~0924~093e~0915~094d~0937~0930 ~0906~0935~0936~094d~092f~0915~0924~093e~090f~0902 ~0936~093e~092e~093f~0932 ~0939~0948~0902~0964">>,
          <<"The agreement appears to establish legally binding obligations between the parties under contract law principles.",
            "~0938~092e~091d~094c~0924~093e ~0905~0928~0941~092c~0902~0927 ~0915~093e~0928~0942~0928 ~0915~0947 ~0938~093f~0926~094d~0927~093e~0902~0924~094b~0902 ~0915~0947 ~0924~0939~0924 ~092a~0915~094d~0937~094b~0902 ~0915~0947 ~092c~0940~091a ~0915~093e~0928~0942~0928~0940 ~0930~0942~092a ~0938~0947 ~092c~093e~0927~094d~092f~0915~093e~0930~0940 ~0926~093e~092f~093f~0924~094d~0935~094b~0902 ~0915~094b ~0938~094d~0925~093e~092a~093f~0924 ~0915~0930~0924~093e ~092a~094d~0930~0924~0940~0924 ~0939~094b~0924~093e ~0939~0948~0964">>,
          <<"Terms and conditions governing the relationship between parties are outlined",
            "~092a~0915~094d~0937~094b~0902 ~0915~0947 ~092c~0940~091a ~0938~0902~092c~0902~0927~094b~0902 ~0915~094b ~0928~093f~092f~0902~0924~094d~0930~093f~0924 ~0915~0930~0928~0947 ~0935~093e~0932~0947 ~0928~093f~092f~092e ~0914~0930 ~0936~0930~094d~0924~094b~0902 ~0915~093e ~0909~0932~094d~0932~0947~0916 ~0915~093f~092f~093e ~0917~092f~093e ~0939~0948">>,
          <<"with specific performance requirements.",
            "~0935~093f~0936~093f~0937~094d~091f ~092a~094d~0930~0926~0930~094d~0936~0928 ~0906~0935~0936~094d~092f~0915~0924~093e~0913~0902 ~0915~0947 ~0938~093e~0925~0964">>,
          <<"Liability provisions and risk allocation measures are included",
            "~0926~0947~092f~0924~093e ~092a~094d~0930~093e~0935~0927~093e~0928 ~0914~0930 ~091c~094b~0916~093f~092e ~0906~0935~0902~091f~0928 ~0909~092a~093e~092f ~0936~093e~092e~093f~0932 ~0939~0948~0902">>,
          <<"to protect the parties' interests.",
            "~092a~0915~094d~0937~094b~0902 ~0915~0947 ~0939~093f~0924~094b~0902 ~0915~0940 ~0930~0915~094d~0937~093e ~0915~0947 ~0932~093f~090f~0964">>,
          <<"Termination mechanisms and conditions for contract renewal are specified.",
            "~0938~092e~093e~092a~094d~0924~093f ~0924~0902~0924~094d~0930 ~0914~0930 ~0905~0928~0941~092c~0902~0927 ~0928~0935~0940~0928~0940~0915~0930~0923 ~0915~0947 ~0932~093f~090f ~0936~0930~094d~0924~0947~0902 ~0928~093f~0930~094d~0926~093f~0937~094d~091f ~0939~0948~0902~0964">>,
          <<"The respective duties of each party are delineated",
            "~092a~094d~0930~0924~094d~092f~0947~0915 ~092a~0915~094d~0937 ~0915~0947 ~0938~0902~092c~0902~0927~093f~0924 ~0915~0930~094d~0924~0935~094d~092f~094b~0902 ~0915~093e ~0938~0940~092e~093e~0902~0915~0928 ~0915~093f~092f~093e ~0917~092f~093e ~0939~0948">>,
          <<"with specific performance metrics and timelines.",
            "~0935~093f~0936~093f~0937~094d~091f ~092a~094d~0930~0926~0930~094d~0936~0928 ~092e~0947~091f~094d~0930~093f~0915~094d~0938 ~0914~0930 ~0938~092e~092f~0938~0940~092e~093e ~0915~0947 ~0938~093e~0925~0964">>,
          <<"Compliance requirements with relevant laws and regulations are established.",
            "~092a~094d~0930~093e~0938~0902~0917~093f~0915 ~0915~093e~0928~0942~0928~094b~0902 ~0914~0930 ~0935~093f~0928~093f~092f~092e~094b~0902 ~0915~0947 ~0905~0928~0941~092a~093e~0932~0928 ~0915~0940 ~0906~0935~0936~094d~092f~0915~0924~093e~090f~0902 ~0938~094d~0925~093e~092a~093f~0924 ~0915~0940 ~0917~0908 ~0939~0948~0902~0964">>,
          <<"Remedy mechanisms in case of breach are provided with specific consequences.",
            "~0909~0932~094d~0932~0902~0918~0928 ~0915~0947 ~092e~093e~092e~0932~0947 ~092e~0947~0902 ~0909~092a~091a~093e~0930 ~0924~0902~0924~094d~0930 ~0935~093f~0936~093f~0937~094d~091f ~092a~0930~093f~0923~093e~092e~094b~0902 ~0915~0947 ~0938~093e~0925 ~092a~094d~0930~0926~093e~0928 ~0915~093f~090f ~0917~090f ~0939~0948~0902~0964">>,
          <<"The contract creates legally enforceable rights",
            "~0905~0928~0941~092c~0902~0927 ~0915~093e~0928~0942~0928~0940 ~0930~0942~092a ~0938~0947 ~0932~093e~0917~0942 ~0915~0930~0928~0947 ~092f~094b~0917~094d~092f ~0905~0927~093f~0915~093e~0930 ~092c~0928~093e~0924~093e ~0939~0948">>,
          <<"that can be upheld through legal proceedings if necessary.",
            "~091c~093f~0928~094d~0939~0947~0902 ~0906~0935~0936~094d~092f~0915~0924~093e ~092a~0921~093c~0928~0947 ~092a~0930 ~0915~093e~0928~0942~0928~0940 ~0915~093e~0930~094d~092f~0935~093e~0939~0940 ~0915~0947 ~092e~093e~0927~094d~092f~092e ~0938~0947 ~092c~0928~093e~090f ~0930~0916~093e ~091c~093e ~0938~0915~0924~093e ~0939~0948~0964">>,
          <<"Under contract law, material breaches may entitle the non-breaching party",
            "~0905~0928~0941~092c~0902~0927 ~0915~093e~0928~0942~0928 ~0915~0947 ~0924~0939~0924, ~092d~094c~0924~093f~0915 ~0909~0932~094d~0932~0902~0918~0928 ~0917~0948~0930-~0909~0932~094d~0932~0902~0918~0928~0915~0930~094d~0924~093e ~092a~0915~094d~0937 ~0915~094b ~0939~0915~0926~093e~0930 ~092c~0928~093e ~0938~0915~0924~093e ~0939~0948">>,
          <<"to remedies including specific performance or damages.",
            "~0935~093f~0936~093f~0937~094d~091f ~092a~094d~0930~0926~0930~094d~0936~0928 ~092f~093e ~0915~094d~0937~0924~093f ~0938~0939~093f~0924 ~0909~092a~091a~093e~0930~094b~0902 ~0915~0947 ~0932~093f~090f~0964">>,
          <<"Ambiguous terms may be interpreted by courts",
            "~0905~0938~094d~092a~0937~094d~091f ~0936~092c~094d~0926~094b~0902 ~0915~0940 ~0935~094d~092f~093e~0916~094d~092f~093e ~0905~0926~093e~0932~0924~094b~0902 ~0926~094d~0935~093e~0930~093e ~0915~0940 ~091c~093e ~0938~0915~0924~0940 ~0939~0948">>,
          <<"according to standard principles of contractual interpretation.",
            "~0905~0928~0941~092c~0902~0927 ~0935~094d~092f~093e~0916~094d~092f~093e ~0915~0947 ~092e~093e~0928~0915 ~0938~093f~0926~094d~0927~093e~0902~0924~094b~0902 ~0915~0947 ~0905~0928~0941~0938~093e~0930~0964">>
        >>>>,
      <<"kn",
        <<
          <<"Here's a detailed analysis:",
            "~0c87~0cb2~0ccd~0cb2~0cbf ~0cb5~0cbf~0cb5~0cb0~0cb5~0cbe~0ca6 ~0cb5~0cbf~0cb6~0ccd~0cb2~0cc7~0cb7~0ca3~0cc6~0caf~0cbf~0ca6~0cc6:">>,
          <<"Contract Structure and Validity:",
            "~0c92~0caa~0ccd~0caa~0c82~0ca6~0ca6 ~0cb0~0c9a~0ca8~0cc6 ~0cae~0ca4~0ccd~0ca4~0cc1 ~0cae~0cbe~0ca8~0ccd~0caf~0ca4~0cc6:">>,
          <<"Key Legal Provisions:",
            "~0caa~0ccd~0cb0~0cae~0cc1~0c96 ~0c95~0cbe~0ca8~0cc2~0ca8~0cc1 ~0ca8~0cbf~0cac~0c82~0ca7~0ca8~0cc6~0c97~0cb3~0cc1:">>,
          <<"Rights and Obligations:",
            "~0cb9~0c95~0ccd~0c95~0cc1~0c97~0cb3~0cc1 ~0cae~0ca4~0ccd~0ca4~0cc1 ~0c9c~0cb5~0cbe~0cac~0ccd~0ca6~0cbe~0cb0~0cbf~0c97~0cb3~0cc1:">>,
          <<"Legal Implications:",
            "~0c95~0cbe~0ca8~0cc2~0ca8~0cc1 ~0caa~0cb0~0cbf~0ca3~0cbe~0cae~0c97~0cb3~0cc1:">>,
          <<"Applicable legal frameworks that may be relevant:",
            "~0c85~0ca8~0ccd~0cb5~0caf~0cb5~0cbe~0c97~0cc1~0cb5 ~0c95~0cbe~0ca8~0cc2~0ca8~0cc1 ~0c9a~0ccc~0c95~0c9f~0ccd~0c9f~0cc1~0c97~0cb3~0cc1 ~0cb8~0c82~0cac~0c82~0ca7~0cbf~0ca4~0cb5~0cbe~0c97~0cbf~0cb0~0cac~0cb9~0cc1~0ca6~0cc1:">>,
          <<"DISCLAIMER:",
            "~0cb9~0c95~0ccd~0c95~0cc1~0ca4~0ccd~0caf~0cbe~0c97:">>,
          <<"This analysis is provided for informational purposes only",
            "~0c88 ~0cb5~0cbf~0cb6~0ccd~0cb2~0cc7~0cb7~0ca3~0cc6~0caf~0ca8~0ccd~0ca8~0cc1 ~0c95~0cc7~0cb5~0cb2 ~0cae~0cbe~0cb9~0cbf~0ca4~0cbf ~0c89~0ca6~0ccd~0ca6~0cc7~0cb6~0c97~0cb3~0cbf~0c97~0cbe~0c97~0cbf ~0cae~0cbe~0ca4~0ccd~0cb0 ~0ca8~0cc0~0ca1~0cb2~0cbe~0c97~0cbf~0ca6~0cc6">>,
          <<"and should not be construed as legal advice.",
            "~0cae~0ca4~0ccd~0ca4~0cc1 ~0c87~0ca6~0ca8~0ccd~0ca8~0cc1 ~0c95~0cbe~0ca8~0cc2~0ca8~0cc1 ~0cb8~0cb2~0cb9~0cc6~0caf~0cbe~0c97~0cbf ~0caa~0cb0~0cbf~0c97~0ca3~0cbf~0cb8~0cac~0cbe~0cb0~0ca6~0cc1.">>,
          <<"Please consult with a qualified legal professional for advice specific to your situation.",
            "~0ca8~0cbf~0cae~0ccd~0cae ~0caa~0cb0~0cbf~0cb8~0ccd~0ca5~0cbf~0ca4~0cbf~0c97~0cc6 ~0ca8~0cbf~0cb0~0ccd~0ca6~0cbf~0cb7~0ccd~0c9f~0cb5~0cbe~0ca6 ~0cb8~0cb2~0cb9~0cc6~0c97~0cbe~0c97~0cbf ~0ca6~0caf~0cb5~0cbf~0c9f~0ccd~0c9f~0cc1 ~0c85~0cb0~0ccd~0cb9 ~0c95~0cbe~0ca8~0cc2~0ca8~0cc1 ~0cb5~0cc3~0ca4~0ccd~0ca4~0cbf~0caa~0cb0~0cb0~0ca8~0ccd~0ca8~0cc1 ~0cb8~0c82~0caa~0cb0~0ccd~0c95~0cbf~0cb8~0cbf.">>,
          <<"The document contains standard contractual elements",
            "~0ca6~0cbe~0c96~0cb2~0cc6~0caf~0cc1 ~0caa~0ccd~0cb0~0cae~0cbe~0ca3~0cbf~0ca4 ~0c92~0caa~0ccd~0caa~0c82~0ca6~0ca6 ~0c85~0c82~0cb6~0c97~0cb3~0ca8~0ccd~0ca8~0cc1 ~0c92~0cb3~0c97~0cca~0c82~0ca1~0cbf~0ca6~0cc6">>,
          <<"including parties' details, consideration clauses, terms of agreement, and signature requirements.",
            "~0caa~0c95~0ccd~0cb7~0c97~0cb3 ~0cb5~0cbf~0cb5~0cb0~0c97~0cb3~0cc1, ~0caa~0cb0~0cbf~0c97~0ca3~0ca8~0cbe ~0cb7~0cb0~0ca4~0ccd~0ca4~0cc1~0c97~0cb3~0cc1, ~0c92~0caa~0ccd~0caa~0c82~0ca6~0ca6 ~0ca8~0cbf~0caf~0cae~0c97~0cb3~0cc1 ~0cae~0ca4~0ccd~0ca4~0cc1 ~0cb8~0cb9~0cbf ~0c85~0cb5~0cb6~0ccd~0caf~0c95~0ca4~0cc6~0c97~0cb3~0ca8~0ccd~0ca8~0cc1 ~0c92~0cb3~0c97~0cca~0c82~0ca1~0c82~0ca4~0cc6.">>,
          <<"The agreement appears to establish legally binding obligations between the parties under contract law principles.",
            "~0c92~0caa~0ccd~0caa~0c82~0ca6~0ca6 ~0c95~0cbe~0ca8~0cc2~0ca8~0cc1 ~0ca4~0ca4~0ccd~0cb5~0c97~0cb3 ~0c85~0ca1~0cbf~0caf~0cb2~0ccd~0cb2~0cbf ~0caa~0c95~0ccd~0cb7~0c97~0cb3 ~0ca8~0ca1~0cc1~0cb5~0cc6 ~0c95~0cbe~0ca8~0cc2~0ca8~0cc1~0cac~0ca6~0ccd~0ca7~0cb5~0cbe~0c97~0cbf ~0cac~0ca6~0ccd~0ca7~0ca4~0cc6~0c97~0cb3~0ca8~0ccd~0ca8~0cc1 ~0cb8~0ccd~0ca5~0cbe~0caa~0cbf~0cb8~0cc1~0cb5~0c82~0ca4~0cc6 ~0c92~0caa~0ccd~0caa~0c82~0ca6~0cb5~0cc1 ~0c95~0cbe~0ca3~0cc1~0ca4~0ccd~0ca4~0ca6~0cc6.">>,
          <<"Terms and conditions governing the relationship between parties are outlined",
            "~0caa~0c95~0ccd~0cb7~0c97~0cb3 ~0ca8~0ca1~0cc1~0cb5~0cbf~0ca8 ~0cb8~0c82~0cac~0c82~0ca7~0cb5~0ca8~0ccd~0ca8~0cc1 ~0ca8~0cbf~0caf~0c82~0ca4~0ccd~0cb0~0cbf~0cb8~0cc1~0cb5 ~0ca8~0cbf~0caf~0cae~0c97~0cb3~0cc1 ~0cae~0ca4~0ccd~0ca4~0cc1 ~0cb7~0cb0~0ca4~0ccd~0ca4~0cc1~0c97~0cb3~0ca8~0ccd~0ca8~0cc1 ~0cb5~0cbf~0cb5~0cb0~0cbf~0cb8~0cb2~0cbe~0c97~0cbf~0ca6~0cc6">>,
          <<"with specific performance requirements.",
            "~0ca8~0cbf~0cb0~0ccd~0ca6~0cbf~0cb7~0ccd~0c9f ~0c95~0cbe~0cb0~0ccd~0caf~0c95~0ccd~0cb7~0cae~0ca4~0cc6 ~0c85~0cb5~0cb6~0ccd~0caf~0c95~0ca4~0cc6~0c97~0cb3~0cca~0c82~0ca6~0cbf~0c97~0cc6.">>,
          <<"Liability provisions and risk allocation measures are included",
            "~0cb9~0cca~0ca3~0cc6~0c97~0cbe~0cb0~0cbf~0c95~0cc6 ~0ca8~0cbf~0cac~0c82~0ca7~0ca8~0cc6~0c97~0cb3~0cc1 ~0cae~0ca4~0ccd~0ca4~0cc1 ~0c85~0caa~0cbe~0caf~0ca6 ~0cb9~0c82~0c9a~0cbf~0c95~0cc6 ~0c95~0ccd~0cb0~0cae~0c97~0cb3~0ca8~0ccd~0ca8~0cc1 ~0cb8~0cc7~0cb0~0cbf~0cb8~0cb2~0cbe~0c97~0cbf~0ca6~0cc6">>,
          <<"to protect the parties' interests.",
            "~0caa~0c95~0ccd~0cb7~0c97~0cb3 ~0cb9~0cbf~0ca4~0cbe~0cb8~0c95~0ccd~0ca4~0cbf~0c97~0cb3~0ca8~0ccd~0ca8~0cc1 ~0cb0~0c95~0ccd~0cb7~0cbf~0cb8~0cb2~0cc1.">>,
          <<"Termination mechanisms and conditions for contract renewal are specified.",
            "~0c92~0caa~0ccd~0caa~0c82~0ca6 ~0ca8~0cb5~0cc0~0c95~0cb0~0ca3~0c95~0ccd~0c95~0cbe~0c97~0cbf ~0c95~0cca~0ca8~0cc6~0c97~0cca~0cb3~0cbf~0cb8~0cc1~0cb5 ~0cb5~0cbf~0ca7~0cbe~0ca8~0c97~0cb3~0cc1 ~0cae~0ca4~0ccd~0ca4~0cc1 ~0cb7~0cb0~0ca4~0ccd~0ca4~0cc1~0c97~0cb3~0ca8~0ccd~0ca8~0cc1 ~0ca8~0cbf~0cb0~0ccd~0ca6~0cbf~0cb7~0ccd~0c9f~0caa~0ca1~0cbf~0cb8~0cb2~0cbe~0c97~0cbf~0ca6~0cc6.">>,
          <<"The respective duties of each party are delineated",
            "~0caa~0ccd~0cb0~0ca4~0cbf~0caf~0cca~0c82~0ca6~0cc1 ~0caa~0c95~0ccd~0cb7~0ca6 ~0cb8~0c82~0cac~0c82~0ca7~0cbf~0ca4 ~0c95~0cb0~0ccd~0ca4~0cb5~0ccd~0caf~0c97~0cb3~0ca8~0ccd~0ca8~0cc1 ~0cb5~0cbf~0c82~0c97~0ca1~0cbf~0cb8~0cb2~0cbe~0c97~0cbf~0ca6~0cc6">>,
          <<"with specific performance metrics and timelines.",
            "~0ca8~0cbf~0cb0~0ccd~0ca6~0cbf~0cb7~0ccd~0c9f ~0c95~0cbe~0cb0~0ccd~0caf~0c95~0ccd~0cb7~0cae~0ca4~0cc6 ~0cae~0cc6~0c9f~0ccd~0cb0~0cbf~0c95~0ccd~0cb8~0ccd ~0cae~0ca4~0ccd~0ca4~0cc1 ~0cb8~0cae~0caf~0ca6 ~0cae~0cbf~0ca4~0cbf~0c97~0cb3~0cca~0c82~0ca6~0cbf~0c97~0cc6.">>,
          <<"Compliance requirements with relevant laws and regulations are established.",
            "~0cb8~0c82~0cac~0c82~0ca7~0cbf~0ca4 ~0c95~0cbe~0ca8~0cc2~0ca8~0cc1~0c97~0cb3~0cc1 ~0cae~0ca4~0ccd~0ca4~0cc1 ~0ca8~0cbf~0cac~0c82~0ca7~0ca8~0cc6~0c97~0cb3~0cca~0c82~0ca6~0cbf~0c97~0cc6 ~0c85~0ca8~0cc1~0cb8~0cb0~0ca3~0cc6~0caf ~0c85~0cb5~0cb6~0ccd~0caf~0c95~0ca4~0cc6~0c97~0cb3~0ca8~0ccd~0ca8~0cc1 ~0cb8~0ccd~0ca5~0cbe~0caa~0cbf~0cb8~0cb2~0cbe~0c97~0cbf~0ca6~0cc6.">>,
          <<"Remedy mechanisms in case of breach are provided with specific consequences.",
            "~0c89~0cb2~0ccd~0cb2~0c82~0c98~0ca8~0cc6~0caf ~0cb8~0c82~0ca6~0cb0~0ccd~0cad~0ca6~0cb2~0ccd~0cb2~0cbf ~0caa~0cb0~0cbf~0cb9~0cbe~0cb0 ~0cb5~0cbf~0ca7~0cbe~0ca8~0c97~0cb3~0ca8~0ccd~0ca8~0cc1 ~0ca8~0cbf~0cb0~0ccd~0ca6~0cbf~0cb7~0ccd~0c9f ~0caa~0cb0~0cbf~0ca3~0cbe~0cae~0c97~0cb3~0cca~0c82~0ca6~0cbf~0c97~0cc6 ~0c92~0ca6~0c97~0cbf~0cb8~0cb2~0cbe~0c97~0cbf~0ca6~0cc6.">>,
          <<"The contract creates legally enforceable rights",
            "~0c92~0caa~0ccd~0caa~0c82~0ca6~0cb5~0cc1 ~0c95~0cbe~0ca8~0cc2~0ca8~0cc1~0cac~0ca6~0ccd~0ca7~0cb5~0cbe~0c97~0cbf ~0c9c~0cbe~0cb0~0cbf~0c97~0cca~0cb3~0cbf~0cb8~0cac~0cb9~0cc1~0ca6~0cbe~0ca6 ~0cb9~0c95~0ccd~0c95~0cc1~0c97~0cb3~0ca8~0ccd~0ca8~0cc1 ~0cb8~0cc3~0cb7~0ccd~0c9f~0cbf~0cb8~0cc1~0ca4~0ccd~0ca4~0ca6~0cc6">>,
          <<"that can be upheld through legal proceedings if necessary.",
            "~0c85~0c97~0ca4~0ccd~0caf~0cb5~0cbf~0ca6~0ccd~0ca6~0cb2~0ccd~0cb2~0cbf ~0c95~0cbe~0ca8~0cc2~0ca8~0cc1 ~0cb5~0ccd~0caf~0cb5~0cb9~0cb0~0ca3~0cc6~0c97~0cb3 ~0cae~0cc2~0cb2~0c95 ~0c89~0cb3~0cbf~0cb8~0cbf~0c95~0cca~0cb3~0ccd~0cb3~0cac~0cb9~0cc1~0ca6~0cc1.">>,
          <<"Under contract law, material breaches may entitle the non-breaching party",
            "~0c92~0caa~0ccd~0caa~0c82~0ca6 ~0c95~0cbe~0ca8~0cc2~0ca8~0cbf~0ca8 ~0c85~0ca1~0cbf~0caf~0cb2~0ccd~0cb2~0cbf, ~0cb5~0cb8~0ccd~0ca4~0cc1 ~0c89~0cb2~0ccd~0cb2~0c82~0c98~0ca8~0cc6~0c97~0cb3~0cc1 ~0c89~0cb2~0ccd~0cb2~0c82~0c98~0ca8~0cc6~0caf~0cb2~0ccd~0cb2~0ca6 ~0caa~0c95~0ccd~0cb7~0c95~0ccd~0c95~0cc6 ~0cb9~0c95~0ccd~0c95~0cc1 ~0ca8~0cc0~0ca1~0cac~0cb9~0cc1~0ca6~0cc1">>,
          <<"to remedies including specific performance or damages.",
            "~0ca8~0cbf~0cb0~0ccd~0ca6~0cbf~0cb7~0ccd~0c9f ~0c95~0cbe~0cb0~0ccd~0caf~0c95~0ccd~0cb7~0cae~0ca4~0cc6 ~0c85~0ca5~0cb5~0cbe ~0cb9~0cbe~0ca8~0cbf~0c97~0cb3~0cc1 ~0cb8~0cc7~0cb0~0cbf~0ca6~0c82~0ca4~0cc6 ~0caa~0cb0~0cbf~0cb9~0cbe~0cb0~0c97~0cb3~0cbf~0c97~0cc6.">>,
          <<"Ambiguous terms may be interpreted by courts",
            "~0c85~0cb8~0ccd~0caa~0cb7~0ccd~0c9f ~0ca8~0cbf~0caf~0cae~0c97~0cb3~0ca8~0ccd~0ca8~0cc1 ~0ca8~0ccd~0caf~0cbe~0caf~0cbe~0cb2~0caf~0c97~0cb3~0cc1 ~0cb5~0ccd~0caf~0cbe~0c96~0ccd~0caf~0cbe~0ca8~0cbf~0cb8~0cac~0cb9~0cc1~0ca6~0cc1">>,
          <<"according to standard principles of contractual interpretation.",
            "~0c92~0caa~0ccd~0caa~0c82~0ca6 ~0cb5~0ccd~0caf~0cbe~0c96~0ccd~0caf~0cbe~0ca8~0ca6 ~0caa~0ccd~0cb0~0cae~0cbe~0ca3~0cbf~0ca4 ~0ca4~0ca4~0ccd~0cb5~0c97~0cb3 ~0caa~0ccd~0cb0~0c95~0cbe~0cb0.">>
        >>>>,
      <<"ml",
        <<
          <<"Here's a detailed analysis:",
            "~0d07~0d35~0d3f~0d1f~0d46 ~0d12~0d30~0d41 ~0d35~0d3f~0d36~0d26~0d2e~0d3e~0d2f ~0d35~0d3f~0d36~0d15~0d32~0d28~0d02 ~0d09~0d23~0d4d~0d1f~0d4d:">>,
          <<"Contract Structure and Validity:",
            "~0d15~0d30~0d3e~0d31~0d3f~0d28~0d4d~0d31~0d46 ~0d18~0d1f~0d28~0d2f~0d41~0d02 ~0d38~0d3e~0d27~0d41~0d24~0d2f~0d41~0d02:">>,
          <<"Key Legal Provisions:",
            "~0d2a~0d4d~0d30~0d27~0d3e~0d28 ~0d28~0d3f~0d2f~0d2e ~0d35~0d4d~0d2f~0d35~0d38~0d4d~0d25~0d15~0d7e:">>,
          <<"Rights and Obligations:",
            "~0d05~0d35~0d15~0d3e~0d36~0d19~0d4d~0d19~0d33~0d41~0d02 ~0d2c~0d3e~0d27~0d4d~0d2f~0d24~0d15~0d33~0d41~0d02:">>,
          <<"Legal Implications:",
            "~0d28~0d3f~0d2f~0d2e~0d2a~0d30~0d2e~0d3e~0d2f ~0d2a~0d4d~0d30~0d24~0d4d~0d2f~0d3e~0d18~0d3e~0d24~0d19~0d4d~0d19~0d7e:">>,
          <<"Applicable legal frameworks that may be relevant:",
            "~0d2a~0d4d~0d30~0d3e~0d38~0d02~0d17~0d3f~0d15~0d2e~0d3e~0d2f ~0d28~0d3f~0d2f~0d2e ~0d18~0d1f~0d28~0d15~0d7e ~0d2c~0d28~0d4d~0d27~0d2a~0d4d~0d2a~0d46~0d1f~0d4d~0d1f~0d3f~0d30~0d3f~0d15~0d4d~0d15~0d3e~0d02:">>,
          <<"DISCLAIMER:",
            "~0d05~0d35~0d15~0d3e~0d36~0d2e~0d4a~0d34~0d3f:">>,
          <<"This analysis is provided for informational purposes only",
            "~0d08 ~0d35~0d3f~0d36~0d15~0d32~0d28~0d02 ~0d35~0d3f~0d35~0d30~0d2a~0d30~0d2e~0d3e~0d2f ~0d09~0d26~0d4d~0d26~0d47~0d36~0d4d~0d2f~0d19~0d4d~0d19~0d7e~0d15~0d4d~0d15~0d3e~0d2f~0d3e~0d23~0d4d ~0d28~0d7d~0d15~0d41~0d28~0d4d~0d28~0d24~0d4d">>,
          <<"and should not be construed as legal advice.",
            "~0d2e~0d31~0d4d~0d31~0d41 ~0d28~0d3f~0d2f~0d2e~0d4b~0d2a~0d26~0d47~0d36~0d02 ~0d0e~0d28~0d4d~0d28 ~0d28~0d3f~0d32~0d2f~0d3f~0d7d ~0d35~0d4d~0d2f~0d3e~0d16~0d4d~0d2f~0d3e~0d28~0d3f~0d15~0d4d~0d15~0d2a~0d4d~0d2a~0d46~0d1f~0d47~0d23~0d4d~0d1f~0d24~0d32~0d4d~0d32.">>,
          <<"Please consult with a qualified legal professional for advice specific to your situation.",
            "~0d28~0d3f~0d19~0d4d~0d19~0d33~0d41~0d1f~0d46 ~0d38~0d3e~0d39~0d1a~0d30~0d4d~0d2f~0d24~0d4d~0d24~0d3f~0d28~0d4d ~0d2a~0d4d~0d30~0d24~0d4d~0d2f~0d47~0d15~0d2e~0d3e~0d2f ~0d09~0d2a~0d26~0d47~0d36~0d02 ~0d32~0d2d~0d3f~0d15~0d4d~0d15~0d3e~0d7b ~0d26~0d2f~0d35~0d3e~0d2f~0d3f ~0d2f~0d4b~0d17~0d4d~0d2f~0d2e~0d3e~0d2f ~0d12~0d30~0d41 ~0d28~0d3f~0d2f~0d2e ~0d35~0d3f~0d26~0d17~0d4d~0d27~0d28~0d41~0d2e~0d3e~0d2f~0d3f ~0d2c~0d28~0d4d~0d27~0d2a~0d4d~0d2a~0d46~0d1f~0d41~0d15.">>,
          <<"The document contains standard contractual elements",
            "~0d26~0d38~0d4d~0d24~0d3e~0d35~0d47~0d38~0d4d ~0d2e~0d3e~0d28~0d15 ~0d15~0d30~0d3e~0d7c ~0d18~0d1f~0d15~0d19~0d4d~0d19~0d7e ~0d05~0d1f~0d19~0d4d~0d19~0d3f~0d2f~0d3f~0d30~0d3f~0d15~0d4d~0d15~0d41~0d28~0d4d~0d28~0d41">>,
          <<"including parties' details, consideration clauses, terms of agreement, and signature requirements.",
            "~0d2a~0d3e~0d7c~0d1f~0d4d~0d1f~0d3f~0d15~0d33~0d41~0d1f~0d46 ~0d35~0d3f~0d36~0d26~0d3e~0d02~0d36~0d19~0d4d~0d19~0d7e, ~0d2a~0d30~0d3f~0d17~0d23~0d28~0d3e ~0d35~0d4d~0d2f~0d35~0d38~0d4d~0d25~0d15~0d7e, ~0d15~0d30~0d3e~0d31~0d3f~0d28~0d4d~0d31~0d46 ~0d28~0d3f~0d2c~0d28~0d4d~0d27~0d28~0d15~0d7e, ~0d12~0d2a~0d4d~0d2a~0d4d ~0d06~0d35~0d36~0d4d~0d2f~0d19~0d4d~0d19~0d7e ~0d0e~0d28~0d4d~0d28~0d3f~0d35 ~0d09~0d7e~0d2a~0d4d~0d2a~0d46~0d1f~0d41~0d28~0d4d~0d28~0d41.">>,
          <<"The agreement appears to establish legally binding obligations between the parties under contract law principles.",
            "~0d15~0d30~0d3e~0d7c ~0d28~0d3f~0d2f~0d2e~0d24~0d4d~0d24~0d3f~0d28~0d4d~0d31~0d46 ~0d24~0d24~0d4d~0d35~0d19~0d4d~0d19~0d7e ~0d2a~0d4d~0d30~0d15~0d3e~0d30~0d02 ~0d2a~0d3e~0d7c~0d1f~0d4d~0d1f~0d3f~0d15~0d7e~0d15~0d4d~0d15~0d3f~0d1f~0d2f~0d3f~0d7d ~0d28~0d3f~0d2f~0d2e~0d2a~0d30~0d2e~0d3e~0d2f~0d3f ~0d2c~0d26~0d4d~0d27~0d15~0d43~0d24~0d4d~0d2f~0d19~0d4d~0d19~0d7e ~0d38~0d4d~0d25~0d3e~0d2a~0d3f~0d15~0d4d~0d15~0d41~0d28~0d4d~0d28~0d24~0d41~0d2a~0d4b~0d32~0d46 ~0d15~0d30~0d3e~0d7c ~0d15~0d3e~0d23~0d3f~0d15~0d4d~0d15~0d41~0d28~0d4d~0d28~0d41.">>,
          <<"Terms and conditions governing the relationship between parties are outlined",
            "~0d2a~0d15~0d4d~0d37~0d19~0d4d~0d19~0d7e~0d15~0d4d~0d15~0d3f~0d1f~0d2f~0d3f~0d32~0d46 ~0d2c~0d28~0d4d~0d27~0d02 ~0d28~0d3f~0d2f~0d28~0d4d~0d24~0d4d~0d30~0d3f~0d15~0d4d~0d15~0d41~0d28~0d4d~0d28 ~0d28~0d3f~0d2c~0d28~0d4d~0d27~0d28~0d15~0d33~0d41~0d02 ~0d35~0d4d~0d2f~0d35~0d38~0d4d~0d25~0d15~0d33~0d41~0d02 ~0d30~0d47~0d16~0d2a~0d4d~0d2a~0d46~0d1f~0d41~0d24~0d4d~0d24~0d3f~0d2f~0d3f~0d30~0d3f~0d15~0d4d~0d15~0d41~0d28~0d4d~0d28~0d41">>,
          <<"with specific performance requirements.",
            "~0d28~0d3f~0d36~0d4d~0d1a~0d3f~0d24 ~0d2a~0d4d~0d30~0d15~0d1f~0d28 ~0d06~0d35~0d36~0d4d~0d2f~0d15~0d24~0d15~0d33~0d4b~0d1f~0d46.">>,
          <<"Liability provisions and risk allocation measures are included",
            "~0d26~0d3e~0d2f~0d3f~0d24~0d4d~0d35 ~0d35~0d4d~0d2f~0d35~0d38~0d4d~0d25~0d15~0d33~0d41~0d02 ~0d05~0d2a~0d15~0d1f~0d02 ~0d35~0d3f~0d24~0d30~0d23~0d02 ~0d1a~0d46~0d2f~0d4d~0d2f~0d3e~0d28~0d41~0d33~0d4d~0d33 ~0d28~0d1f~0d2a~0d1f~0d3f~0d15~0d33~0d41~0d02 ~0d09~0d7e~0d2a~0d4d~0d2a~0d46~0d1f~0d41~0d28~0d4d~0d28~0d41">>,
          <<"to protect the parties' interests.",
            "~0d2a~0d15~0d4d~0d37~0d19~0d4d~0d19~0d33~0d41~0d1f~0d46 ~0d24~0d3e~0d7d~0d2a~0d30~0d4d~0d2f~0d19~0d4d~0d19~0d7e ~0d38~0d02~0d30~0d15~0d4d~0d37~0d3f~0d15~0d4d~0d15~0d3e~0d7b.">>,
          <<"Termination mechanisms and conditions for contract renewal are specified.",
            "~0d15~0d30~0d3e~0d7c ~0d2a~0d41~0d24~0d41~0d15~0d4d~0d15~0d41~0d28~0d4d~0d28~0d24~0d3f~0d28~0d41~0d33~0d4d~0d33 ~0d05~0d35~0d38~0d3e~0d28~0d3f~0d2a~0d4d~0d2a~0d3f~0d15~0d4d~0d15~0d7d ~0d2f~0d28~0d4d~0d24~0d4d~0d30~0d19~0d4d~0d19~0d33~0d41~0d02 ~0d28~0d3f~0d2c~0d28~0d4d~0d27~0d28~0d15~0d33~0d41~0d02 ~0d35~0d4d~0d2f~0d15~0d4d~0d24~0d2e~0d3e~0d15~0d4d~0d15~0d2a~0d4d~0d2a~0d46~0d1f~0d4d~0d1f~0d3f~0d30~0d3f~0d15~0d4d~0d15~0d41~0d28~0d4d~0d28~0d41.">>,
          <<"The respective duties of each party are delineated",
            "~0aa6~0ab0~0ac7~0a95 ~0aaa~0a95~0acd~0ab7~0aa8~0ac0 ~0ab8~0a82~0aac~0a82~0aa7~0abf~0aa4 ~0aab~0ab0~0a9c~0ac0~0a93~0aa8~0ac0 ~0ab0~0ac7~0a96~0abe~0a82~0a95~0aa8 ~0a95~0ab0~0ab5~0abe~0aae~0abe~0a82 ~0a86~0ab5~0ac0 ~0a9b~0ac7">>,
          <<"with specific performance metrics and timelines.",
            "~0d28~0d3f~0d36~0d4d~0d1a~0d3f~0d24 ~0d2a~0d4d~0d30~0d15~0d1f~0d28 ~0d2e~0d46~0d1f~0d4d~0d30~0d3f~0d15~0d4d~200c~0d38~0d41~0d02 ~0d38~0d2e~0d2f~0d30~0d47~0d16~0d15~0d33~0d41~0d02 ~0d09~0d2a~0d2f~0d4b~0d17~0d3f~0d1a~0d4d~0d1a~0d4d.">>,
          <<"Compliance requirements with relevant laws and regulations are established.",
            "~0d32~0d3e~0d17~0d41 ~0aaa~0aa1~0aa4~0abe ~0d15~0d3e~0d28~0d42~0d28~0d41~0d15~0d33~0d41~0d02 ~0d28~0d3f~0d2f~0d28~0d4d~0d24~0d4d~0d30~0d23~0d19~0d4d~0d19~0d33~0d41~0d02 ~0d2a~0d3e~0d32~0d3f~0d15~0d4d~0d15~0d41~0d28~0d4d~0d28~0d24~0d3f~0d28~0d41~0d33~0d4d~0d33 ~0d06~0d35~0d36~0d4d~0d2f~0d15~0d24~0d15~0d7e ~0d38~0d4d~0d25~0d3e~0d2a~0d3f~0d1a~0d4d~0d1a~0d3f~0d30~0d3f~0d15~0d4d~0d15~0d41~0d28~0d4d~0d28~0d41.">>,
          <<"Remedy mechanisms in case of breach are provided with specific consequences.",
            "~0d09~0d32~0d4d~0d32~0d02~0d18~0d28~0d24~0d4d~0d24~0d3f~0d28~0d4d~0d31~0d46 ~0d38~0d3e~0d39~0d1a~0d30~0d4d~0d2f~0d24~0d4d~0d24~0d3f~0d7d ~0d2a~0d30~0d3f~0d39~0d3e~0d30 ~0d2f~0d28~0d4d~0d24~0d4d~0d30~0d19~0d4d~0d19~0d7e ~0d2a~0d4d~0d30~0d24~0d4d~0d2f~0d47~0d15 ~0d2b~0d32~0d19~0d4d~0d19~0d33~0d4b~0d1f~0d46 ~0d28~0d7d~0d15~0d41~0d28~0d4d~0d28~0d41.">>,
          <<"The contract creates legally enforceable rights",
            "~0d15~0d30~0d3e~0d7c ~0d28~0d3f~0d2f~0d2e~0d2a~0d30~0d2e~0d3e~0d2f~0d3f ~0d28~0d1f~0d2a~0d4d~0d2a~0d3e~0d15~0d4d~0d15~0d3e~0d35~0d41~0d28~0d4d~0d28 ~0d05~0d35~0d15~0d3e~0d36~0d19~0d4d~0d19~0d7e ~0d38~0d43~0d37~0d4d~0d1f~0d3f~0d15~0d4d~0d15~0d41~0d28~0d4d~0d28~0d41">>,
          <<"that can be upheld through legal proceedings if necessary.",
            "~0d06~0d35~0d36~0d4d~0d2f~0d2e~0d3e~0d2f~0d3e~0d7d ~0d28~0d3f~0d2f~0d2e ~0d28~0d1f~0d2a~0d1f~0d3f~0d15~0d33~0d3f~0d32~0d42~0d1f~0d46 ~0d28~0d3f~0d32~0d28~0d3f~0d30~0d4d~200d~0d24~0d4d~0d24~0d3e~0d35~0d41~0d28~0d4d~0d28~0d24~0d3e~0d23~0d4d.">>,
          <<"Under contract law, material breaches may entitle the non-breaching party",
            "~0d15~0d30~0d3e~0d7c ~0d28~0d3f~0d2f~0d2e~0d24~0d4d~0d24~0d3f~0d28~0d4d~0d31~0d46 ~0d15~0d40~0d34~0d3f~0d7d, ~0d35~0d38~0d4d~0d24~0d41~0d24~0d3e~0d2a~0d30~0d2e~0d3e~0d2f ~0d32~0d02~0d18~0d28~0d19~0d4d~0d19~0d7e ~0d32~0d02~0d18~0d28~0d2e~0d32~0d4d~0d32~0d3e~0d24~0d4d~0d24 ~0d2a~0d3e~0d7c~0d1f~0d4d~0d1f~0d3f~0d15~0d4d~0d15~0d4d ~0d05~0d35~0d15~0d3e~0d36~0d02 ~0d28~0d7d~0d15~0d3e~0d02">>,
          <<"to remedies including specific performance or damages.",
            "~0d28~0d3f~0d36~0d4d~0d1a~0d3f~0d24 ~0d2a~0d4d~0d30~0d15~0d1f~0d28~0d02 ~0d05~0d32~0d4d~0d32~0d46~0d19~0d4d~0d15~0d3f~0d7d ~0d28~0d37~0d4d~0d1f~0d2a~0d30~0d3f~0d39~0d3e~0d30~0d02 ~0d09~0d7e~0d2a~0d4d~0d2a~0d46~0d1f~0d46~0d2f~0d41~0d33~0d4d~0d33 ~0d2a~0d30~0d3f~0d39~0d3e~0d30~0d19~0d4d~0d19~0d7e~0d15~0d4d~0d15~0d4d.">>,
          <<"Ambiguous terms may be interpreted by courts",
            "~0d05~0d38~0d4d~0d2a~0d37~0d4d~0d1f~0d2e~0d3e~0d2f ~0d28~0d3f~0d2c~0d28~0d4d~0d27~0d28~0d15~0d7e~0d15~0d4d~0d15~0d4d ~0d15~0d4b~0d1f~0d24~0d3f~0d15~0d7e ~0d35~0d4d~0d2f~0d3e~0d16~0d4d~0d2f~0d3e~0d28~0d3f~0d15~0d4d~0d15~0d3e~0d35~0d41~0d28~0d4d~0d28~0d24~0d3e~0d23~0d4d">>,
          <<"according to standard principles of contractual interpretation.",
            "~0d12~0d2a~0d4d~0d2a~0d28~0d4d~0d24~0d02 ~0d35~0d4d~0d2f~0d3e~0d16~0d4d~0d2f~0d3e~0d28~0d24~0d4d~0d24~0d3f~0d28~0d4d~0d31~0d46 ~0d2e~0d3e~0d28~0d15 ~0d24~0d24~0d4d~0d35~0d19~0d4d~0d19~0d7e ~0d05~0d28~0d41~0d38~0d30~0d3f~0d1a~0d4d~0d1a~0d4d.">>
        >>>>,
      <<"ta",
        <<
          <<"Here's a detailed analysis:",
            "~0b87~0ba4~0bcb ~0bb5~0bbf~0bb0~0bbf~0bb5~0bbe~0ba9 ~0baa~0b95~0bc1~0baa~0bcd~0baa~0bbe~0baf~0bcd~0bb5~0bc1:">>,
          <<"Contract Structure and Validity:",
            "~0b92~0baa~0bcd~0baa~0ba8~0bcd~0ba4 ~0b85~0bae~0bc8~0baa~0bcd~0baa~0bc1 ~0bae~0bb1~0bcd~0bb1~0bc1~0bae~0bcd ~0b9a~0bc6~0bb2~0bcd~0bb2~0bc1~0baa~0b9f~0bbf~0ba4~0bcd~0ba4~0ba9~0bcd~0bae~0bc8:">>,
          <<"Key Legal Provisions:",
            "~0bae~0bc1~0b95~0bcd~0b95~0bbf~0baf ~0b9a~0b9f~0bcd~0b9f ~0bb5~0bbf~0ba4~0bbf~0b95~0bb3~0bcd:">>,
          <<"Rights and Obligations:",
            "~0b89~0bb0~0bbf~0bae~0bc8~0b95~0bb3~0bcd ~0bae~0bb1~0bcd~0bb1~0bc1~0bae~0bcd ~0b95~0b9f~0bae~0bc8~0b95~0bb3~0bcd:">>,
          <<"Legal Implications:",
            "~0b9a~0b9f~0bcd~0b9f ~0ba4~0bbe~0b95~0bcd~0b95~0b99~0bcd~0b95~0bb3~0bcd:">>,
          <<"Applicable legal frameworks that may be relevant:",
            "~0baa~0bca~0bb0~0bc1~0ba4~0bcd~0ba4~0bae~0bbe~0ba9 ~0b9a~0b9f~0bcd~0b9f ~0b95~0b9f~0bcd~0b9f~0bae~0bc8~0baa~0bcd~0baa~0bc1~0b95~0bb3~0bcd ~0ba4~0bca~0b9f~0bb0~0bcd~0baa~0bc1~0b9f~0bc8~0baf~0ba4~0bbe~0b95 ~0b87~0bb0~0bc1~0b95~0bcd~0b95~0bb2~0bbe~0bae~0bcd:">>,
          <<"DISCLAIMER:",
            "~0baa~0bca~0bb1~0bc1~0baa~0bcd~0baa~0bc1~0ba4~0bcd~0ba4~0bc1~0bb1~0baa~0bcd~0baa~0bc1:">>,
          <<"This analysis is provided for informational purposes only",
            "~0b87~0ba8~0bcd~0ba4 ~0baa~0b95~0bc1~0baa~0bcd~0baa~0bbe~0baf~0bcd~0bb5~0bc1 ~0ba4~0b95~0bb5~0bb2~0bcd ~0ba8~0bcb~0b95~0bcd~0b95~0b99~0bcd~0b95~0bb3~0bc1~0b95~0bcd~0b95~0bbe~0b95 ~0bae~0b9f~0bcd~0b9f~0bc1~0bae~0bc7 ~0bb5~0bb4~0b99~0bcd~0b95~0baa~0bcd~0baa~0b9f~0bc1~0b95~0bbf~0bb1~0ba4~0bc1">>,
          <<"and should not be construed as legal advice.",
            "~0bae~0bb1~0bcd~0bb1~0bc1~0bae~0bcd ~0b87~0ba4~0ba9~0bc8 ~0b9a~0b9f~0bcd~0b9f ~0b86~0bb2~0bcb~0b9a~0ba9~0bc8~0baf~0bbe~0b95~0b95~0bcd ~0b95~0bb0~0bc1~0ba4~0b95~0bcd~0b95~0bc2~0b9f~0bbe~0ba4~0bc1.">>,
          <<"Please consult with a qualified legal professional for advice specific to your situation.",
            "~0b89~0b99~0bcd~0b95~0bb3~0bcd ~0b9a~0bc2~0bb4~0bcd~0ba8~0bbf~0bb2~0bc8~0b95~0bcd~0b95~0bc1 ~0b95~0bc1~0bb1~0bbf~0baa~0bcd~0baa~0bbf~0b9f~0bcd~0b9f ~0b86~0bb2~0bcb~0b9a~0ba9~0bc8~0b95~0bcd~0b95~0bc1 ~0ba4~0b95~0bc1~0ba4~0bbf~0bb5~0bbe~0baf~0bcd~0ba8~0bcd~0ba4 ~0b9a~0b9f~0bcd~0b9f ~0ba8~0bbf~0baa~0bc1~0ba3~0bb0~0bc8 ~0b85~0ba3~0bc1~0b95~0bb5~0bc1~0bae~0bcd.">>,
          <<"The document contains standard contractual elements",
            "~0b86~0bb5~0ba3~0bae~0bcd ~0ba8~0bbf~0bb2~0bc8~0baf~0bbe~0ba9 ~0b92~0baa~0bcd~0baa~0ba8~0bcd~0ba4 ~0b95~0bc2~0bb1~0bc1~0b95~0bb3~0bc8 ~0b95~0bca~0ba3~0bcd~0b9f~0bc1~0bb3~0bcd~0bb3~0ba4~0bc1">>,
          <<"including parties' details, consideration clauses, terms of agreement, and signature requirements.",
            "~0ba4~0bb0~0baa~0bcd~0baa~0bbf~0ba9~0bb0~0bbf~0ba9~0bcd ~0bb5~0bbf~0bb5~0bb0~0b99~0bcd~0b95~0bb3~0bcd, ~0baa~0bb0~0bbf~0b9a~0bc0~0bb2~0ba9~0bc8 ~0bb5~0bbf~0ba4~0bbf~0b95~0bb3~0bcd, ~0b92~0baa~0bcd~0baa~0ba8~0bcd~0ba4 ~0bb5~0bbf~0ba4~0bbf~0bae~0bc1~0bb1~0bc8~0b95~0bb3~0bcd ~0bae~0bb1~0bcd~0bb1~0bc1~0bae~0bcd ~0b95~0bc8~0baf~0bca~0baa~0bcd~0baa ~0ba4~0bc7~0bb5~0bc8~0b95~0bb3~0bcd ~0b89~0bb3~0bcd~0bb3~0bbf~0b9f~0bcd~0b9f~0bb5~0bc8.">>,
          <<"The agreement appears to establish legally binding obligations between the parties under contract law principles.",
            "~0b92~0baa~0bcd~0baa~0ba8~0bcd~0ba4~0bae~0bcd ~0b9a~0b9f~0bcd~0b9f~0baa~0bcd~0baa~0bc2~0bb0~0bcd~0bb5~0bae~0bbe~0b95 ~0ba8~0b9f~0bc8~0bae~0bc1~0bb1~0bc8~0baa~0bcd~0baa~0b9f~0bc1~0ba4~0bcd~0ba4~0b95~0bcd~0b95~0bc2~0b9f~0bbf~0baf ~0b89~0bb0~0bbf~0bae~0bc8~0b95~0bb3~0bc8 ~0b89~0bb0~0bc1~0bb5~0bbe~0b95~0bcd~0b95~0bc1~0b95~0bbf~0bb1~0ba4~0bc1">>,
          <<"that can be upheld through legal proceedings if necessary.",
            "~0ba4~0bc7~0bb5~0bc8~0baa~0bcd~0baa~0b9f~0bcd~0b9f~0bbe~0bb2~0bcd ~0b9a~0b9f~0bcd~0b9f ~0ba8~0b9f~0bb5~0b9f~0bbf~0b95~0bcd~0b95~0bc8~0b95~0bb3~0bcd ~0bae~0bc2~0bb2~0bae~0bcd ~0ba8~0bbf~0bb2~0bc8~0ba8~0bbf~0bb1~0bc1~0ba4~0bcd~0ba4~0baa~0bcd~0baa~0b9f~0bb2~0bbe~0bae~0bcd.">>,
          <<"Under contract law, material breaches may entitle the non-breaching party",
            "~0b92~0baa~0bcd~0baa~0ba8~0bcd~0ba4 ~0b9a~0b9f~0bcd~0b9f~0ba4~0bcd~0ba4~0bbf~0ba9~0bcd ~0b95~0bc0~0bb4~0bcd, ~0baa~0bca~0bb0~0bc1~0bb3~0bcd ~0bae~0bc0~0bb1~0bb2~0bcd~0b95~0bb3~0bcd ~0bae~0bc0~0bb1~0bbe~0ba4 ~0ba4~0bb0~0baa~0bcd~0baa~0bbf~0ba9~0bb0~0bc1~0b95~0bcd~0b95~0bc1 ~0b89~0bb0~0bbf~0bae~0bc8 ~0b85~0bb3~0bbf~0b95~0bcd~0b95~0bb2~0bbe~0bae~0bcd">>,
          <<"to remedies including specific performance or damages.",
            "~0b95~0bc1~0bb1~0bbf~0baa~0bcd~0baa~0bbf~0b9f~0bcd~0b9f ~0b9a~0bc6~0baf~0bb2~0bcd~0ba4~0bbf~0bb1~0ba9~0bcd ~0b85~0bb2~0bcd~0bb2~0ba4~0bc1 ~0b9a~0bc7~0ba4~0b99~0bcd~0b95~0bb3~0bcd ~0b89~0bb3~0bcd~0bb3~0bbf~0b9f~0bcd~0b9f ~0ba4~0bc0~0bb0~0bcd~0bb5~0bc1~0b95~0bb3~0bc1~0b95~0bcd~0b95~0bc1.">>,
          <<"Ambiguous terms may be interpreted by courts",
            "~0ba4~0bc6~0bb3~0bbf~0bb5~0bb1~0bcd~0bb1 ~0bb5~0bbf~0ba4~0bbf~0bae~0bc1~0bb1~0bc8~0b95~0bb3~0bc8 ~0ba8~0bc0~0ba4~0bbf~0bae~0ba9~0bcd~0bb1~0b99~0bcd~0b95~0bb3~0bcd ~0bb5~0bbf~0bb3~0b95~0bcd~0b95~0bb2~0bbe~0bae~0bcd">>,
          <<"according to standard principles of contractual interpretation.",
            "~0b92~0baa~0bcd~0baa~0ba8~0bcd~0ba4 ~0bb5~0bbf~0bb3~0b95~0bcd~0b95~0ba4~0bcd~0ba4~0bbf~0ba9~0bcd ~0ba8~0bbf~0bb2~0bc8~0baf~0bbe~0ba9 ~0b95~0bcb~0b9f~0bcd~0baa~0bbe~0b9f~0bc1~0b95~0bb3~0bbf~0ba9~0bcd ~0baa~0b9f~0bbf.">>
        >>>>,
      <<"ur",
        <<
          <<"Here's a detailed analysis:",
            "~06cc~06c1~0627~06ba ~0627~06cc~06a9 ~062a~0641~0635~06cc~0644~06cc ~062a~062c~0632~06cc~06c1 ~06c1~06d2:">>,
          <<"Contract Structure and Validity:",
            "~0645~0639~0627~06c1~062f~06d2 ~06a9~06cc ~0633~0627~062e~062a ~0627~0648~0631 ~062d~06cc~062b~06cc~062a:">>,
          <<"Key Legal Provisions:",
            "~0627~06c1~0645 ~0642~0627~0646~0648~0646~06cc ~062f~0641~0639~0627~062a:">>,
          <<"Rights and Obligations:",
            "~062d~0642~0648~0642 ~0627~0648~0631 ~0630~0645~06c1 ~062f~0627~0631~06cc~0627~06ba:">>,
          <<"Legal Implications:",
            "~0642~0627~0646~0648~0646~06cc ~0645~0636~0645~0631~0627~062a:">>,
          <<"Applicable legal frameworks that may be relevant:",
            "~0645~062a~0639~0644~0642~06c1 ~0642~0627~0646~0648~0646~06cc ~0688~06be~0627~0646~0686~06d2 ~062c~0648 ~0645~062a~0639~0644~0642~06c1 ~06c1~0648 ~0633~06a9~062a~06d2 ~06c1~06cc~06ba:">>,
          <<"DISCLAIMER:",
            "~0627~0646~06a9~0627~0631:">>,
          <<"This analysis is provided for informational purposes only",
            "~06cc~06c1 ~062a~062c~0632~06cc~06c1 ~0635~0631~0641 ~0645~0639~0644~0648~0645~0627~062a~06cc ~0645~0642~0627~0635~062f ~06a9~06d2 ~0644~06cc~06d2 ~0641~0631~0627~06c1~0645 ~06a9~06cc~0627 ~06af~06cc~0627 ~06c1~06d2">>,
          <<"and should not be construed as legal advice.",
            "~0627~0648~0631 ~0627~0633~06d2 ~0642~0627~0646~0648~0646~06cc ~0645~0634~0648~0631~06d2 ~06a9~06d2 ~0637~0648~0631 ~067e~0631 ~0646~06c1~06cc~06ba ~0633~0645~062c~06be~0627 ~062c~0627~0646~0627 ~0686~0627~06c1~06cc~06d2~06d4">>,
          <<"Please consult with a qualified legal professional for advice specific to your situation.",
            "~0628~0631~0627~06c1 ~06a9~0631~0645 ~0627~067e~0646~06cc ~0635~0648~0631~062a~062d~0627~0644 ~06a9~06d2 ~0644~06cc~06d2 ~0645~062e~0635~0648~0635 ~0645~0634~0648~0631~06d2 ~06a9~06d2 ~0644~06cc~06d2 ~06a9~0633~06cc ~0627~06c1~0644 ~0642~0627~0646~0648~0646~06cc ~067e~06cc~0634~06c1 ~0648~0631 ~0633~06d2 ~0645~0634~0648~0631~06c1 ~06a9~0631~06cc~06ba~06d4">>,
          <<"The document contains standard contractual elements",
            "~062f~0633~062a~0627~0648~06cc~0632 ~0645~06cc~06ba ~0645~0639~06cc~0627~0631~06cc ~0645~0639~0627~06c1~062f~0627~062a~06cc ~0639~0646~0627~0635~0631 ~0634~0627~0645~0644 ~06c1~06cc~06ba">>,
          <<"including parties' details, consideration clauses, terms of agreement, and signature requirements.",
            "~062c~0633 ~0645~06cc~06ba ~0641~0631~06cc~0642~06cc~0646 ~06a9~06cc ~062a~0641~0635~06cc~0644~0627~062a~060c ~063a~0648~0631 ~0648 ~0641~06a9~0631 ~06a9~06cc ~062f~0641~0639~0627~062a~060c ~0645~0639~0627~06c1~062f~06d2 ~06a9~06cc ~0634~0631~0627~0626~0637 ~0627~0648~0631 ~062f~0633~062a~062e~0637 ~06a9~06cc ~0636~0631~0648~0631~06cc~0627~062a ~0634~0627~0645~0644 ~06c1~06cc~06ba~06d4">>,
          <<"The agreement appears to establish legally binding obligations between the parties under contract law principles.",
            "~0645~0639~0627~06c1~062f~06c1 ~0645~0639~0627~06c1~062f~06d2 ~06a9~06d2 ~0642~0627~0646~0648~0646 ~06a9~06d2 ~0627~0635~0648~0644~0648~06ba ~06a9~06d2 ~062a~062d~062a ~0641~0631~06cc~0642~06cc~0646 ~06a9~06d2 ~062f~0631~0645~06cc~0627~0646 ~0642~0627~0646~0648~0646~06cc ~0637~0648~0631 ~067e~0631 ~067e~0627~0628~0646~062f ~0630~0645~06c1 ~062f~0627~0631~06cc~0648~06ba ~06a9~06d2 ~0642~06cc~0627~0645 ~06a9~0627 ~0645~0638~0627~06c1~0631~06c1 ~06a9~0631~062a~0627 ~06c1~06d2~06d4">>,
          <<"Terms and conditions governing the relationship between parties are outlined",
            "~0641~0631~06cc~0642~06cc~0646 ~06a9~06d2 ~062f~0631~0645~06cc~0627~0646 ~062a~0639~0644~0642~0627~062a ~06a9~0648 ~0645~0646~0638~0645 ~06a9~0631~0646~06d2 ~0648~0627~0644~06cc ~0634~0631~0627~0626~0637 ~0648 ~0636~0648~0627~0628~0637 ~06a9~06cc ~0648~0636~0627~062d~062a ~06a9~06cc ~06af~0626~06cc ~06c1~06d2">>,
          <<"with specific performance requirements.",
            "~062e~0627~0635 ~06a9~0627~0631~06a9~0631~062f~06af~06cc ~06a9~06cc ~0636~0631~0648~0631~06cc~0627~062a ~06a9~06d2 ~0633~0627~062a~06be~06d4">>,
          <<"Liability provisions and risk allocation measures are included",
            "~0630~0645~06c1 ~062f~0627~0631~06cc ~06a9~06cc ~062f~0641~0639~0627~062a ~0627~0648~0631 ~062e~0637~0631~06d2 ~06a9~06cc ~062a~0642~0633~06cc~0645 ~06a9~06d2 ~0627~0642~062f~0627~0645~0627~062a ~0634~0627~0645~0644 ~06c1~06cc~06ba">>,
          <<"to protect the parties' interests.",
            "~0641~0631~06cc~0642~06cc~0646 ~06a9~06d2 ~0645~0641~0627~062f~0627~062a ~06a9~06d2 ~062a~062d~0641~0638 ~06a9~06d2 ~0644~06cc~06d2~06d4">>,
          <<"Termination mechanisms and conditions for contract renewal are specified.",
            "~0645~0639~0627~06c1~062f~06d2 ~06a9~06cc ~062a~062c~062f~06cc~062f ~06a9~06d2 ~0644~06cc~06d2 ~062e~062a~0645 ~06a9~0631~0646~06d2 ~06a9~06d2 ~0637~0631~06cc~0642~06c1 ~06a9~0627~0631 ~0627~0648~0631 ~0634~0631~0627~0626~0637 ~06a9~06cc ~0648~0636~0627~062d~062a ~06a9~06cc ~06af~0626~06cc ~06c1~06d2~06d4">>,
          <<"The respective duties of each party are delineated",
            "~06c1~0631 ~0641~0631~06cc~0642 ~06a9~06d2 ~0645~062a~0639~0644~0642~06c1 ~0641~0631~0627~0626~0636 ~06a9~06cc ~0648~0636~0627~062d~062a ~06a9~06cc ~06af~0626~06cc ~06c1~06d2">>,
          <<"with specific performance metrics and timelines.",
            "~062e~0627~0635 ~06a9~0627~0631~06a9~0631~062f~06af~06cc ~06a9~06d2 ~0645~06cc~0679~0631~06a9~0633 ~0627~0648~0631 ~0679~0627~0626~0645 ~0644~0627~0626~0646~0632 ~06a9~06d2 ~0633~0627~062a~06be~06d4">>,
          <<"Compliance requirements with relevant laws and regulations are established.",
            "~0645~062a~0639~0644~0642~06c1 ~0642~0648~0627~0646~06cc~0646 ~0627~0648~0631 ~0636~0648~0627~0628~0637 ~06a9~06d2 ~0633~0627~062a~06be ~062a~0639~0645~06cc~0644 ~06a9~06d2 ~062a~0642~0627~0636~06d2 ~0642~0627~0626~0645 ~06a9~06cc~06d2 ~06af~0626~06d2 ~06c1~06cc~06ba~06d4">>,
          <<"Remedy mechanisms in case of breach are provided with specific consequences.",
            "~062e~0644~0627~0641 ~0648~0631~0632~06cc ~06a9~06cc ~0635~0648~0631~062a ~0645~06cc~06ba ~0639~0644~0627~062c ~06a9~06d2 ~0637~0631~06cc~0642~06c1 ~06a9~0627~0631 ~0645~062e~0635~0648~0635 ~0646~062a~0627~0626~062c ~06a9~06d2 ~0633~0627~062a~06be ~0641~0631~0627~06c1~0645 ~06a9~06cc~06d2 ~06af~0626~06d2 ~06c1~06cc~06ba~06d4">>,
          <<"The contract creates legally enforceable rights",
            "~0645~0639~0627~06c1~062f~06c1 ~0642~0627~0646~0648~0646~06cc ~0637~0648~0631 ~067e~0631 ~0642~0627~0628~0644 ~0646~0641~0627~0630 ~062d~0642~0648~0642 ~067e~06cc~062f~0627 ~06a9~0631~062a~0627 ~06c1~06d2">>,
          <<"that can be upheld through legal proceedings if necessary.",
            "~062c~0646~06c1~06cc~06ba ~0636~0631~0648~0631~062a ~067e~0691~0646~06d2 ~067e~0631 ~0642~0627~0646~0648~0646~06cc ~06a9~0627~0631~0631~0648~0627~0626~06cc ~06a9~06d2 ~0630~0631~06cc~0639~06d2 ~0628~0631~0642~0631~0627~0631 ~0631~06a9~06be~0627 ~062c~0627 ~0633~06a9~062a~0627 ~06c1~06d2~06d4">>,
          <<"Under contract law, material breaches may entitle the non-breaching party",
            "~0645~0639~0627~06c1~062f~06d2 ~06a9~06d2 ~0642~0627~0646~0648~0646 ~06a9~06d2 ~062a~062d~062a~060c ~0645~0627~062f~06cc ~062e~0644~0627~0641 ~0648~0631~0632~06cc~0627~06ba ~063a~06cc~0631 ~062e~0644~0627~0641 ~0648~0631~0632~06cc ~06a9~0631~0646~06d2 ~0648~0627~0644~06cc ~067e~0627~0631~0679~06cc ~06a9~0648 ~062d~0642 ~062f~0627~0631 ~0628~0646~0627 ~0633~06a9~062a~06cc ~06c1~06cc~06ba">>,
          <<"to remedies including specific performance or damages.",
            "~062e~0627~0635 ~06a9~0627~0631~06a9~0631~062f~06af~06cc ~06cc~0627 ~0646~0642~0635~0627~0646~0627~062a ~0633~0645~06cc~062a ~0639~0644~0627~062c ~06a9~06d2 ~0644~06cc~06d2~06d4">>,
          <<"Ambiguous terms may be interpreted by courts",
            "~063a~06cc~0631 ~0648~0627~0636~062d ~0634~0631~0627~0626~0637 ~06a9~06cc ~062a~0634~0631~06cc~062d ~0639~062f~0627~0644~062a~0648~06ba ~06a9~06d2 ~0630~0631~06cc~0639~06c1 ~06a9~06cc ~062c~0627 ~0633~06a9~062a~06cc ~06c1~06d2">>,
          <<"according to standard principles of contractual interpretation.",
            "~0645~0639~06cc~0627~0631~06cc ~0645~0639~0627~06c1~062f~0627~062a~06cc ~062a~0634~0631~06cc~062d ~06a9~06d2 ~0627~0635~0648~0644~0648~06ba ~06a9~06d2 ~0645~0637~0627~0628~0642~06d4">>
        >>>>,
      <<"gu",
        <<
          <<"Here's a detailed analysis:",
            "~0a85~0ab9~0ac0~0a82 ~0a8f~0a95 ~0ab5~0abf~0a97~0aa4~0ab5~0abe~0ab0 ~0ab5~0abf~0ab6~0acd~0ab2~0ac7~0ab7~0aa3 ~0a9b~0ac7:">>,
          <<"Contract Structure and Validity:",
            "~0a95~0acb~0aa8~0acd~0a9f~0acd~0ab0~0abe~0a95~0acd~0a9f~0aa8~0ac0 ~0ab0~0a9a~0aa8~0abe ~0a85~0aa8~0ac7 ~0aae~0abe~0aa8~0acd~0aaf~0aa4~0abe:">>,
          <<"Key Legal Provisions:",
            "~0aae~0ac1~0a96~0acd~0aaf ~0a95~0abe~0aa8~0ac2~0aa8~0ac0 ~0aaa~0acd~0ab0~0abe~0ab5~0aa7~0abe~0aa8:">>,
          <<"Rights and Obligations:",
            "~0ab9~0a95~0acd~0a95~0acb ~0a85~0aa8~0ac7 ~0aab~0ab0~0a9c~0ac0~0a93:">>,
          <<"Legal Implications:",
            "~0a95~0abe~0aa8~0ac2~0aa8~0ac0 ~0aaa~0ab0~0abf~0aa3~0abe~0aae~0acb:">>,
          <<"Applicable legal frameworks that may be relevant:",
            "~0ab2~0abe~0a97~0ac1 ~0aaa~0aa1~0aa4~0abe ~0a95~0abe~0aa8~0ac2~0aa8~0ac0 ~0aae~0abe~0ab3~0a96~0abe~0a82 ~0a9c~0ac7 ~0ab8~0a82~0aac~0a82~0aa7~0abf~0aa4 ~0ab9~0acb~0a88 ~0ab6~0a95~0ac7 ~0a9b~0ac7:">>,
          <<"DISCLAIMER:",
            "~0a85~0ab8~0acd~0ab5~0ac0~0a95~0ab0~0aa3:">>,
          <<"This analysis is provided for informational purposes only",
            "~0a86 ~0ab5~0abf~0ab6~0acd~0ab2~0ac7~0ab7~0aa3 ~0aae~0abe~0aa4~0acd~0ab0 ~0aae~0abe~0ab9~0abf~0aa4~0ac0~0aa8~0abe ~0a89~0aa6~0acd~0aa6~0ac7~0ab6~0acb ~0aae~0abe~0a9f~0ac7 ~0a86~0aaa~0ab5~0abe~0aae~0abe~0a82 ~0a86~0ab5~0acd~0aaf~0ac1~0a82 ~0a9b~0ac7">>,
          <<"and should not be construed as legal advice.",
            "~0a85~0aa8~0ac7 ~0aa4~0ac7~0aa8~0ac7 ~0a95~0abe~0aa8~0ac2~0aa8~0ac0 ~0ab8~0ab2~0abe~0ab9 ~0aa4~0ab0~0ac0~0a95~0ac7 ~0ab8~0aae~0a9c~0ab5~0abe~0aae~0abe~0a82 ~0a86~0ab5~0ab5~0ac1~0a82 ~0a9c~0acb~0a88~0a8f ~0aa8~0ab9~0ac0~0a82.">>,
          <<"Please consult with a qualified legal professional for advice specific to your situation.",
            "~0a95~0ac3~0aaa~0abe ~0a95~0ab0~0ac0~0aa8~0ac7 ~0aa4~0aae~0abe~0ab0~0ac0 ~0aaa~0ab0~0abf~0ab8~0acd~0aa5~0abf~0aa4~0abf ~0aae~0abe~0a9f~0ac7 ~0ab5~0abf~0ab6~0abf~0ab7~0acd~0a9f ~0ab8~0ab2~0abe~0ab9 ~0aae~0abe~0a9f~0ac7 ~0a8f~0a95 ~0aaf~0acb~0a97~0acd~0aaf ~0a95~0abe~0aa8~0ac2~0aa8~0ac0 ~0ab5~0acd~0aaf~0abe~0ab5~0ab8~0abe~0aaf~0abf~0a95 ~0ab8~0abe~0aa5~0ac7 ~0aaa~0ab0~0abe~0aae~0ab0~0acd~0ab6 ~0a95~0ab0~0acb.">>,
          <<"The document contains standard contractual elements",
            "~0aa6~0ab8~0acd~0aa4~0abe~0ab5~0ac7~0a9c~0aae~0abe~0a82 ~0aae~0abe~0aa8~0a95 ~0a95~0ab0~0abe~0ab0~0aa8~0abe ~0aa4~0aa4~0acd~0ab5~0acb ~0ab6~0abe~0aae~0ac7~0ab2 ~0a9b~0ac7">>,
          <<"including parties' details, consideration clauses, terms of agreement, and signature requirements.",
            "~0aaa~0abe~0ab0~0acd~0a9f~0ac0~0a93~0aa8~0ac0 ~0ab5~0abf~0a97~0aa4~0acb, ~0ab5~0abf~0a9a~0abe~0ab0~0aa3~0abe ~0a95~0ab2~0aae~0acb, ~0a95~0ab0~0abe~0ab0~0aa8~0ac0 ~0ab6~0ab0~0aa4~0acb ~0a85~0aa8~0ac7 ~0ab8~0ab9~0ac0~0aa8~0ac0 ~0a9c~0ab0~0ac2~0ab0~0abf~0aaf~0abe~0aa4~0acb ~0ab8~0ab9~0abf~0aa4.">>,
          <<"The agreement appears to establish legally binding obligations between the parties under contract law principles.",
            "~0ab8~0aae~0a9c~0ac2~0aa4~0ac0 ~0a95~0ab0~0abe~0ab0~0aa8~0abe ~0a95~0abe~0aaf~0aa6~0abe~0aa8~0abe ~0ab8~0abf~0aa6~0acd~0aa7~0abe~0a82~0aa4~0acb ~0ab9~0ac7~0aa0~0ab3 ~0aaa~0a95~0acd~0ab7~0acb ~0ab5~0a9a~0acd~0a9a~0ac7 ~0a95~0abe~0aa8~0ac2~0aa8~0ac0 ~0ab0~0ac0~0aa4~0ac7 ~0aac~0abe~0a82~0aa7~0a95~0abe~0aae ~0a95~0ab0~0aa8~0abe~0ab0~0abe~0a82 ~0aab~0ab0~0a9c~0ac0~0a93 ~0ab8~0acd~0aa5~0abe~0aaa~0abf~0aa4 ~0a95~0ab0~0ac7 ~0a9b~0ac7 ~0aa4~0ac7~0ab5~0abe ~0aa6~0ac7~0a96~0abe~0aaf ~0a9b~0ac7.">>,
          <<"Terms and conditions governing the relationship between parties are outlined",
            "~0aaa~0a95~0acd~0ab7~0acb ~0ab5~0a9a~0acd~0a9a~0ac7~0aa8~0abe ~0ab8~0a82~0aac~0a82~0aa7~0aa8~0ac7 ~0aa8~0abf~0aaf~0a82~0aa4~0acd~0ab0~0abf~0aa4 ~0a95~0ab0~0aa4~0ac0 ~0ab6~0ab0~0aa4~0acb ~0a85~0aa8~0ac7 ~0ab6~0ab0~0aa4~0acb~0aa8~0ac0 ~0ab0~0ac2~0aaa~0ab0~0ac7~0a96~0abe ~0ab0~0a9c~0ac2 ~0a95~0ab0~0ab5~0abe~0aae~0abe~0a82 ~0a86~0ab5~0ac0 ~0a9b~0ac7">>,
          <<"with specific performance requirements.",
            "~0aa8~0abf~0ab6~0acd~0a9a~0abf~0aa4 ~0a95~0abe~0aae~0a97~0ac0~0ab0~0ac0~0aa8~0ac0 ~0a9c~0ab0~0ac2~0ab0~0abf~0aaf~0abe~0aa4~0acb ~0ab8~0abe~0aa5~0ac7.">>,
          <<"Liability provisions and risk allocation measures are included",
            "~0a9c~0ab5~0abe~0aac~0aa6~0abe~0ab0~0ac0~0aa8~0ac0 ~0ab5~0acd~0aaf~0ab5~0ab8~0acd~0aa5~0abe~0a93 ~0a85~0aa8~0ac7 ~0a9c~0acb~0a96~0aae ~0ab5~0abf~0aa4~0ab0~0aa3~0aa8~0abe ~0aaa~0a97~0ab2~0abe~0a82~0a93~0aa8~0acb ~0ab8~0aae~0abe~0ab5~0ac7~0ab6 ~0aa5~0abe~0aaf ~0a9b~0ac7">>,
          <<"to protect the parties' interests.",
            "~0aaa~0a95~0acd~0ab7~0acb~0aa8~0abe ~0ab9~0abf~0aa4~0acb~0aa8~0ac7 ~0ab8~0ac1~0ab0~0a95~0acd~0ab7~0abf~0aa4 ~0a95~0ab0~0ab5~0abe ~0aae~0abe~0a9f~0ac7.">>,
          <<"Termination mechanisms and conditions for contract renewal are specified.",
            "~0a95~0acb~0aa8~0acd~0a9f~0acd~0ab0~0abe~0a95~0acd~0a9f ~0aa8~0ab5~0ac0~0aa8~0ac0~0a95~0ab0~0aa3 ~0aae~0abe~0a9f~0ac7~0aa8~0ac0 ~0ab8~0aae~0abe~0aaa~0acd~0aa4~0abf~0aa8~0ac0 ~0aaf~0abe~0a82~0aa4~0acd~0ab0~0abf~0a95~0aa4~0abe~0a93 ~0a85~0aa8~0ac7 ~0ab6~0ab0~0aa4~0acb ~0ab8~0acd~0aaa~0ab7~0acd~0a9f ~0a95~0ab0~0ab5~0abe~0aae~0abe~0a82 ~0a86~0ab5~0ac0 ~0a9b~0ac7.">>,
          <<"The respective duties of each party are delineated",
            "~0aa6~0ab0~0ac7~0a95 ~0aaa~0a95~0acd~0ab7~0aa8~0ac0 ~0ab8~0a82~0aac~0a82~0aa7~0abf~0aa4 ~0aab~0ab0~0a9c~0ac0~0a93~0aa8~0ac0 ~0ab0~0ac7~0a96~0abe~0a82~0a95~0aa8 ~0a95~0ab0~0ab5~0abe~0aae~0abe~0a82 ~0a86~0ab5~0ac0 ~0a9b~0ac7">>,
          <<"with specific performance metrics and timelines.",
            "~0aa8~0abf~0ab6~0acd~0a9a~0abf~0aa4 ~0a95~0abe~0aae~0a97~0ac0~0ab0~0ac0 ~0aae~0ac7~0a9f~0acd~0ab0~0abf~0a95~0acd~0ab8 ~0a85~0aa8~0ac7 ~0ab8~0aae~0aaf~0ab0~0ac7~0a96~0abe~0a93 ~0ab8~0abe~0aa5~0ac7.">>,
          <<"Compliance requirements with relevant laws and regulations are established.",
            "~0ab2~0abe~0a97~0ac1 ~0aaa~0aa1~0aa4~0abe ~0a95~0abe~0aaf~0aa6~0abe ~0a85~0aa8~0ac7 ~0aa8~0abf~0aaf~0aae~0aa8~0a95~0abe~0ab0~0ac0 ~0a9c~0ab0~0ac2~0ab0~0abf~0aaf~0abe~0aa4~0acb ~0ab8~0acd~0aa5~0abe~0aaa~0abf~0aa4 ~0a95~0ab0~0ab5~0abe~0aae~0abe~0a82 ~0a86~0ab5~0ac0 ~0a9b~0ac7.">>,
          <<"Remedy mechanisms in case of breach are provided with specific consequences.",
            "~0aad~0a82~0a97~0aa8~0ac0 ~0ab8~0acd~0aa5~0abf~0aa4~0abf~0aae~0abe~0a82 ~0a89~0aaa~0abe~0aaf~0aa8~0ac0 ~0aaf~0abe~0a82~0aa4~0acd~0ab0~0abf~0a95~0aa4~0abe~0a93 ~0ab5~0abf~0ab6~0abf~0ab7~0acd~0a9f ~0aaa~0ab0~0abf~0aa3~0abe~0aae~0acb ~0ab8~0abe~0aa5~0ac7 ~0aaa~0ac2~0ab0~0ac0 ~0aaa~0abe~0aa1~0ab5~0abe~0aae~0abe~0a82 ~0a86~0ab5~0ac7 ~0a9b~0ac7.">>,
          <<"The contract creates legally enforceable rights",
            "~0a95~0acb~0aa8~0acd~0a9f~0acd~0ab0~0abe~0a95~0acd~0a9f ~0a95~0abe~0aa8~0ac2~0aa8~0ac0 ~0ab0~0ac0~0aa4~0ac7 ~0a85~0aae~0ab2~0aae~0abe~0a82 ~0ab2~0abe~0ab5~0ab5~0abe ~0aae~0abe~0a9f~0ac7~0aa8~0abe ~0ab9~0a95~0acd~0a95~0acb ~0aac~0aa8~0abe~0ab5~0ac7 ~0a9b~0ac7">>,
          <<"that can be upheld through legal proceedings if necessary.",
            "~0a9c~0acd~0aaf~0abe~0ab0~0ac7 ~0a9c~0ab0~0ac2~0ab0~0ac0 ~0ab9~0acb~0aaf ~0aa4~0acd~0aaf~0abe~0ab0~0ac7 ~0a95~0abe~0aa8~0ac2~0aa8~0ac0 ~0a95~0abe~0ab0~0acd~0aaf~0ab5~0abe~0ab9~0ac0 ~0aa6~0acd~0ab5~0abe~0ab0~0abe ~0a9c~0abe~0ab3~0ab5~0ab5~0abe~0aae~0abe~0a82 ~0a86~0ab5~0ac0 ~0ab6~0a95~0ac7 ~0a9b~0ac7.">>,
          <<"Under contract law, material breaches may entitle the non-breaching party",
            "~0a95~0acb~0aa8~0acd~0a9f~0acd~0ab0~0abe~0a95~0acd~0a9f ~0a95~0abe~0aaf~0aa6~0abe ~0ab9~0ac7~0aa0~0ab3, ~0ab8~0abe~0aae~0a97~0acd~0ab0~0ac0~0aa8~0abe ~0aad~0a82~0a97~0acb ~0aa8~0acb~0aa8-~0aad~0a82~0a97~0ac0 ~0aaa~0a95~0acd~0ab7~0aa8~0ac7 ~0a85~0aa7~0abf~0a95~0abe~0ab0 ~0a86~0aaa~0ac0 ~0ab6~0a95~0ac7 ~0a9b~0ac7">>,
          <<"to remedies including specific performance or damages.",
            "~0aa8~0abf~0ab6~0acd~0a9a~0abf~0aa4 ~0a95~0abe~0aae~0a97~0ac0~0ab0~0ac0 ~0a85~0aa5~0ab5~0abe ~0aa8~0ac1~0a95~0ab8~0abe~0aa8 ~0ab8~0ab9~0abf~0aa4~0aa8~0abe ~0a89~0aaa~0abe~0aaf~0acb~0aa8~0ac7.">>,
          <<"Ambiguous terms may be interpreted by courts",
            "~0a85~0ab8~0acd~0aaa~0ab7~0acd~0a9f ~0ab6~0ab0~0aa4~0acb~0aa8~0ac0 ~0ab5~0acd~0aaf~0abe~0a96~0acd~0aaf~0abe ~0a85~0aa6~0abe~0ab2~0aa4~0acb ~0aa6~0acd~0ab5~0abe~0ab0~0abe ~0a95~0ab0~0ab5~0abe~0aae~0abe~0a82 ~0a86~0ab5~0ac0 ~0ab6~0a95~0ac7 ~0a9b~0ac7">>,
          <<"according to standard principles of contractual interpretation.",
            "~0a95~0acb~0aa8~0acd~0a9f~0acd~0ab0~0abe~0a95~0acd~0a9f~0aa8~0ac0 ~0ab5~0acd~0aaf~0abe~0a96~0acd~0aaf~0abe~0aa8~0abe ~0aae~0abe~0aa8~0a95 ~0ab8~0abf~0aa6~0acd~0aa7~0abe~0a82~0aa4~0acb ~0a85~0aa8~0ac1~0ab8~0abe~0ab0.">>
        >>>>,
      <<"or",
        <<
          <<"Here's a detailed analysis:",
            "~0b0f~0b20~0b3e~0b30~0b47 ~0b0f~0b15 ~0b2c~0b3f~0b38~0b4d~0b24~0b43~0b24 ~0b2c~0b3f~0b36~0b4d~0b33~0b47~0b37~0b23 ~0b05~0b1b~0b3f:">>,
          <<"Contract Structure and Validity:",
            "~0b15~0b28~0b4d~0b1f~0b4d~0b30~0b3e~0b15~0b4d~0b1f~0b30 ~0b17~0b20~0b28 ~0b0f~0b2c~0b02 ~0b2c~0b48~0b27~0b24~0b3e:">>,
          <<"Key Legal Provisions:",
            "~0b2e~0b41~0b16~0b4d~0b5f ~0b06~0b07~0b28 ~0b28~0b3f~0b5f~0b2e~0b3e~0b2c~0b33~0b40:">>,
          <<"Rights and Obligations:",
            "~0b05~0b27~0b3f~0b15~0b3e~0b30 ~0b0f~0b2c~0b02 ~0b26~0b3e~0b5f~0b3f~0b24~0b4d~0b71:">>,
          <<"Legal Implications:",
            "~0b06~0b07~0b28 ~0b17~0b24 ~0b2a~0b4d~0b30~0b24~0b3f~0b2b~0b33:">>,
          <<"Applicable legal frameworks that may be relevant:",
            "~0b2f~0b4b~0b17~0b4d~0b5f ~0b06~0b07~0b28 ~0b22~0b3e~0b1e~0b4d~0b1a~0b3e ~0b2f~0b3e~0b39~0b3e ~0b38~0b2e~0b4d~0b2c~0b28~0b4d~0b27~0b3f~0b24 ~0b39~0b4b~0b07~0b2a~0b3e~0b30~0b47:">>,
          <<"DISCLAIMER:",
            "~0b05~0b38~0b4d~0b71~0b40~0b15~0b43~0b24~0b3f:">>,
          <<"This analysis is provided for informational purposes only",
            "~0b0f~0b39~0b3f ~0b2c~0b3f~0b36~0b4d~0b33~0b47~0b37~0b23 ~0b15~0b47~0b2c~0b33 ~0b38~0b42~0b1a~0b28~0b3e~0b2e~0b42~0b33~0b15 ~0b09~0b26~0b4d~0b26~0b47~0b36~0b4d~0b5f~0b30~0b47 ~0b26~0b3f~0b06~0b2f~0b3e~0b07~0b1b~0b3f">>,
          <<"and should not be construed as legal advice.",
            "~0b0f~0b2c~0b02 ~0b0f~0b39~0b3e~0b15~0b41 ~0b06~0b07~0b28 ~0b09~0b2a~0b26~0b47~0b36 ~0b2d~0b3e~0b2c~0b47 ~0b2c~0b41~0b1d~0b3f~0b2c~0b3e ~0b09~0b1a~0b3f~0b24~0b4d ~0b28~0b41~0b39~0b47~0b01~0964">>,
          <<"Please consult with a qualified legal professional for advice specific to your situation.",
            "~0b26~0b5f~0b3e~0b15~0b30~0b3f ~0b06~0b2a~0b23~0b19~0b4d~0b15~0b30 ~0b2a~0b30~0b3f~0b38~0b4d~0b25~0b3f~0b24~0b3f ~0b2a~0b3e~0b07~0b01 ~0b2c~0b3f~0b36~0b47~0b37 ~0b09~0b2a~0b26~0b47~0b36 ~0b2a~0b3e~0b07~0b01 ~0b0f~0b15 ~0b2f~0b4b~0b17~0b4d~0b5f ~0b06~0b07~0b28 ~0b2c~0b3f~0b36~0b47~0b37~0b1c~0b4d~0b1e~0b19~0b4d~0b15 ~0b38~0b39~0b3f~0b24 ~0b2a~0b30~0b3e~0b2e~0b30~0b4d~0b36 ~0b15~0b30~0b28~0b4d~0b24~0b41~0964">>,
          <<"The document contains standard contractual elements",
            "~0b26~0b38~0b4d~0b24~0b3e~0b2c~0b47~0b1c~0b30~0b47 ~0b2e~0b3e~0b28~0b15 ~0b15~0b28~0b4d~0b1f~0b4d~0b30~0b3e~0b15~0b4d~0b1f~0b41~0b06~0b32~0b4d ~0b09~0b2a~0b3e~0b26~0b3e~0b28 ~0b05~0b1b~0b3f">>,
          <<"including parties' details, consideration clauses, terms of agreement, and signature requirements.",
            "~0b2a~0b3e~0b30~0b4d~0b1f~0b3f~0b17~0b41~0b21~0b3f~0b15~0b30 ~0b2c~0b3f~0b2c~0b30~0b23~0b40, ~0b17~0b4d~0b30~0b39~0b23 ~0b15~0b4d~0b32~0b1c~0b4d, ~0b38~0b2e~0b4d~0b2e~0b24~0b3f~0b30 ~0b36~0b30~0b24~0b4d, ~0b0f~0b2c~0b02 ~0b38~0b39~0b3f~0b30 ~0b06~0b2c~0b36~0b4d~0b5f~0b15~0b24~0b3e~0b17~0b41~0b21~0b3f~0b15 ~0b38~0b2e~0b47~0b24~0964">>,
          <<"The agreement appears to establish legally binding obligations between the parties under contract law principles.",
            "~0b38~0b2e~0b4d~0b2e~0b24~0b3f ~0b15~0b28~0b4d~0b1f~0b4d~0b30~0b3e~0b15~0b4d~0b1f ~0b06~0b07~0b28~0b30 ~0b38~0b3f~0b26~0b4d~0b27~0b3e~0b28~0b4d~0b24~0b17~0b41~0b21~0b3f~0b15 ~0b05~0b28~0b41~0b38~0b3e~0b30~0b47 ~0b2a~0b3e~0b30~0b4d~0b1f~0b3f~0b17~0b41~0b21~0b3f~0b15 ~0b2e~0b27~0b4d~0b5f~0b30~0b47 ~0b06~0b07~0b28~0b17~0b24 ~0b2d~0b3e~0b2c~0b47 ~0b2c~0b3e~0b27~0b4d~0b5f~0b15~0b30 ~0b26~0b3e~0b5f~0b3f~0b24~0b4d~0b71 ~0b38~0b4d~0b25~0b3e~0b2a~0b28 ~0b15~0b30~0b3f~0b2c~0b3e~0b15~0b41 ~0b26~0b47~0b16~0b3e~0b2f~0b3e~0b09~0b1b~0b3f~0964">>,
          <<"Terms and conditions governing the relationship between parties are outlined",
            "~0b2a~0b3e~0b30~0b4d~0b1f~0b3f~0b17~0b41~0b21~0b3f~0b15 ~0b2e~0b27~0b4d~0b5f~0b30~0b47 ~0b38~0b2e~0b4d~0b2a~0b30~0b4d~0b15~0b15~0b41 ~0b28~0b3f~0b5f~0b28~0b4d~0b24~0b4d~0b30~0b23 ~0b15~0b30~0b41~0b25~0b3f~0b2c~0b3e ~0b28~0b3f~0b5f~0b2e ~0b0f~0b2c~0b02 ~0b36~0b30~0b24~0b4d~0b17~0b41~0b21~0b3f~0b15~0b30 ~0b30~0b42~0b2a~0b30~0b47~0b16~0b3e ~0b26~0b3f~0b06~0b2f~0b3e~0b07~0b1b~0b3f">>,
          <<"with specific performance requirements.",
            "~0b28~0b3f~0b30~0b4d~0b26~0b4d~0b27~0b3e~0b30~0b3f~0b24 ~0b15~0b3e~0b30~0b4d~0b2f~0b4d~0b5f~0b15~0b4d~0b37~0b2e~0b24~0b3e ~0b06~0b2c~0b36~0b4d~0b5f~0b15~0b24~0b3e ~0b38~0b39~0b3f~0b24~0964">>,
          <<"Liability provisions and risk allocation measures are included",
            "~0b26~0b3e~0b5f~0b3f~0b24~0b4d~0b71 ~0b2a~0b4d~0b30~0b2c~0b27~0b3e~0b28 ~0b0f~0b2c~0b02 ~0b1d~0b41~0b32~0b3f~0b2c~0b3e ~0b2c~0b3f~0b24~0b30~0b23 ~0b2a~0b26~0b15~0b4d~0b37~0b47~0b2a~0b17~0b41~0b21~0b3f~0b15 ~0b05~0b28~0b4d~0b24~0b30~0b4d~0b2d~0b41~0b15~0b4d~0b24">>,
          <<"to protect the parties' interests.",
            "~0b2a~0b3e~0b30~0b4d~0b1f~0b3f~0b17~0b41~0b21~0b3f~0b15~0b30 ~0b39~0b3f~0b24~0b30~0b15~0b4d~0b37~0b3e ~0b2a~0b3e~0b07~0b01~0964">>,
          <<"Termination mechanisms and conditions for contract renewal are specified.",
            "~0b15~0b28~0b4d~0b1f~0b4d~0b30~0b3e~0b15~0b4d~0b1f ~0b28~0b2c~0b40~0b15~0b30~0b23 ~0b2a~0b3e~0b07~0b01 ~0b38~0b2e~0b3e~0b2a~0b4d~0b24~0b3f ~0b2f~0b28~0b4d~0b24~0b4d~0b30~0b23~0b3e ~0b0f~0b2c~0b02 ~0b36~0b30~0b24~0b4d~0b17~0b41~0b21~0b3f~0b15 ~0b28~0b3f~0b30~0b4d~0b26~0b4d~0b27~0b3e~0b30~0b3f~0b24 ~0b15~0b30~0b3e~0b2f~0b3e~0b07~0b1b~0b3f~0964">>,
          <<"The respective duties of each party are delineated",
            "~0b2a~0b4d~0b30~0b24~0b4d~0b5f~0b47~0b15 ~0b2a~0b3e~0b30~0b4d~0b1f~0b3f~0b30 ~0b38~0b2e~0b4d~0b2c~0b28~0b4d~0b27~0b3f~0b24 ~0b15~0b30~0b4d~0b24~0b4d~0b24~0b2c~0b4d~0b5f~0b17~0b41~0b21~0b3f~0b15 ~0b30~0b47~0b16~0b3e~0b19~0b4d~0b15~0b3f~0b24">>,
          <<"with specific performance metrics and timelines.",
            "~0b28~0b3f~0b30~0b4d~0b26~0b4d~0b27~0b3e~0b30~0b3f~0b24 ~0b15~0b3e~0b30~0b4d~0b2f~0b4d~0b5f~0b15~0b4d~0b37~0b2e~0b24~0b3e ~0b2e~0b47~0b1f~0b4d~0b30~0b3f~0b15~0b4d~0b38 ~0b0f~0b2c~0b02 ~0b38~0b2e~0b5f~0b30~0b47~0b16~0b3e ~0b38~0b39~0b3f~0b24~0964">>,
          <<"Compliance requirements with relevant laws and regulations are established.",
            "~0b38~0b2e~0b4d~0b2c~0b28~0b4d~0b27~0b3f~0b24 ~0b06~0b07~0b28 ~0b0f~0b2c~0b02 ~0b28~0b3f~0b5f~0b2e~0b3e~0b2c~0b33~0b40 ~0b38~0b39~0b3f~0b24 ~0b05~0b28~0b41~0b38~0b30~0b23 ~0b06~0b2c~0b36~0b4d~0b5f~0b15~0b24~0b3e~0b17~0b41~0b21~0b3f~0b15 ~0b38~0b4d~0b25~0b3e~0b2a~0b3f~0b24 ~0b15~0b30~0b3e~0b2f~0b3e~0b07~0b1b~0b3f~0964">>,
          <<"Remedy mechanisms in case of breach are provided with specific consequences.",
            "~0b2d~0b19~0b4d~0b17~0b30 ~0b15~0b47~0b38~0b30~0b47 ~0b14~0b37~0b27 ~0b2f~0b28~0b4d~0b24~0b4d~0b30~0b23~0b3e~0b17~0b41~0b21~0b3f~0b15 ~0b28~0b3f~0b30~0b4d~0b26~0b4d~0b27~0b3e~0b30~0b3f~0b24 ~0b2a~0b30~0b3f~0b23~0b3e~0b2e ~0b38~0b39~0b3f~0b24 ~0b26~0b3f~0b06~0b2f~0b3e~0b07~0b1b~0b3f~0964">>,
          <<"The contract creates legally enforceable rights",
            "~0b15~0b28~0b4d~0b1f~0b4d~0b30~0b3e~0b15~0b4d~0b1f ~0b06~0b07~0b28~0b17~0b24 ~0b2d~0b3e~0b2c~0b47 ~0b32~0b3e~0b17~0b41 ~0b15~0b30~0b3e~0b2f~0b3e~0b07~0b2a~0b3e~0b30~0b3f~0b2c~0b3e ~0b05~0b27~0b3f~0b15~0b3e~0b30 ~0b38~0b43~0b37~0b4d~0b1f~0b3f ~0b15~0b30~0b47">>,
          <<"that can be upheld through legal proceedings if necessary.",
            "~0b2f~0b26~0b3f ~0b06~0b2c~0b36~0b4d~0b5f~0b15 ~0b39~0b41~0b0f ~0b24~0b47~0b2c~0b47 ~0b06~0b07~0b28~0b17~0b24 ~0b15~0b3e~0b30~0b4d~0b2f~0b4d~0b5f~0b2c~0b3e~0b39~0b3f~0b15~0b3e ~0b2e~0b3e~0b27~0b4d~0b5f~0b2e~0b30~0b47 ~0b27~0b30~0b3e~0b2f~0b3e~0b07~0b2a~0b3e~0b30~0b3f~0b2c~0964">>,
          <<"Under contract law, material breaches may entitle the non-breaching party",
            "~0b15~0b28~0b4d~0b1f~0b4d~0b30~0b3e~0b15~0b4d~0b1f ~0b06~0b07~0b28 ~0b05~0b28~0b41~0b38~0b3e~0b30~0b47, ~0b2a~0b26~0b3e~0b30~0b4d~0b25 ~0b2d~0b19~0b4d~0b17~0b17~0b41~0b21~0b3f~0b15 ~0b28~0b28~0b4d-~0b2d~0b19~0b4d~0b17~0b3f~0b02 ~0b2a~0b3e~0b30~0b4d~0b1f~0b3f~0b15~0b41 ~0b05~0b27~0b3f~0b15~0b3e~0b30 ~0b26~0b47~0b07~0b2a~0b3e~0b30~0b47">>,
          <<"to remedies including specific performance or damages.",
            "~0b28~0b3f~0b30~0b4d~0b26~0b4d~0b27~0b3e~0b30~0b3f~0b24 ~0b15~0b3e~0b30~0b4d~0b2f~0b4d~0b5f~0b15~0b4d~0b37~0b2e~0b24~0b3e ~0b15~0b3f~0b2e~0b4d~0b2c~0b3e ~0b28~0b37~0b4d~0b1f ~0b38~0b2e~0b4d~0b2e~0b3f~0b33~0b3f~0b24 ~0b14~0b37~0b27~0b17~0b41~0b21~0b3f~0b15~0b41~0964">>,
          <<"Ambiguous terms may be interpreted by courts",
            "~0b05~0b38~0b4d~0b2a~0b37~0b4d~0b1f ~0b36~0b30~0b24~0b4d~0b17~0b41~0b21~0b3f~0b15~0b41 ~0b06~0b07~0b28 ~0b2e~0b3e~0b28~0b4d~0b5f~0b24~0b3e ~0b26~0b4d~0b71~0b3e~0b30~0b3e ~0b2c~0b4d~0b5f~0b3e~0b16~0b4d~0b5f~0b3e ~0b15~0b30~0b3e~0b2f~0b3e~0b07~0b2a~0b3e~0b30~0b47">>,
          <<"according to standard principles of contractual interpretation.",
            "~0b2e~0b3e~0b28~0b15 ~0b15~0b28~0b4d~0b1f~0b4d~0b30~0b3e~0b15~0b4d~0b1f ~0b2c~0b4d~0b5f~0b3e~0b16~0b4d~0b5f~0b3e ~0b2a~0b4d~0b30~0b3f~0b28~0b4d~0b38~0b3f~0b2a~0b32~0b4d ~0b05~0b28~0b41~0b38~0b3e~0b30~0b47~0964">>
        >>>>,
      <<"pa",
        <<
          <<"Here's a detailed analysis:",
            "~0a07~0a71~0a25~0a47 ~0a07~0a71~0a15 ~0a35~0a3f~0a38~0a24~0a4d~0a30~0a3f~0a24 ~0a35~0a3f~0a38~0a3c~0a32~0a47~0a38~0a3c~0a23 ~0a39~0a48:">>,
          <<"Contract Structure and Validity:",
            "~0a15~0a3e~0a02~0a1f~0a4d~0a30~0a48~0a15~0a1f ~0a26~0a40 ~0a2c~0a23~0a3e~0a35~0a1f ~0a05~0a24~0a47 ~0a35~0a48~0a27~0a24~0a3e:">>,
          <<"Key Legal Provisions:",
            "~0a2e~0a41~0a71~0a16 ~0a15~0a3e~0a28~0a42~0a70~0a28~0a40 ~0a2a~0a4d~0a30~0a3e~0a35~0a27~0a3e~0a28:">>,
          <<"Rights and Obligations:",
            "~0a05~0a27~0a3f~0a15~0a3e~0a30 ~0a05~0a24~0a47 ~0a1c~0a3c~0a3f~0a70~0a2e~0a47~0a35~0a3e~0a30~0a40~0a06~0a02:">>,
          <<"Legal Implications:",
            "~0a15~0a3e~0a28~0a42~0a70~0a28~0a40 ~0a28~0a24~0a40~0a1c~0a47:">>,
          <<"Applicable legal frameworks that may be relevant:",
            "~0a32~0a3e~0a17~0a42 ~0a39~0a4b ~0a38~0a15~0a26~0a47 ~0a15~0a3e~0a28~0a42~0a70~0a28~0a40 ~0a22~0a3e~0a02~0a1a~0a47 ~0a1c~0a4b ~0a38~0a2c~0a70~0a27~0a24 ~0a39~0a4b ~0a38~0a15~0a26~0a47 ~0a39~0a28:">>,
          <<"DISCLAIMER:",
            "~0a05~0a38~0a35~0a40~0a15~0a30~0a28:">>,
          <<"This analysis is provided for informational purposes only",
            "~0a07~0a39 ~0a35~0a3f~0a38~0a3c~0a32~0a47~0a38~0a3c~0a23 ~0a38~0a3f~0a30~0a2b~0a3c ~0a1c~0a3e~0a23~0a15~0a3e~0a30~0a40 ~0a26~0a47 ~0a09~0a26~0a47~0a38~0a3c~0a3e~0a02 ~0a32~0a08 ~0a26~0a3f~0a71~0a24~0a40 ~0a17~0a08 ~0a39~0a48">>,
          <<"and should not be construed as legal advice.",
            "~0a05~0a24~0a47 ~0a07~0a38~0a28~0a42~0a70 ~0a15~0a3e~0a28~0a42~0a70~0a28~0a40 ~0a38~0a32~0a3e~0a39 ~0a35~0a1c~0a4b~0a02 ~0a28~0a39~0a40~0a02 ~0a38~0a2e~0a1d~0a3f~0a06 ~0a1c~0a3e~0a23~0a3e ~0a1a~0a3e~0a39~0a40~0a26~0a3e~0964">>,
          <<"Please consult with a qualified legal professional for advice specific to your situation.",
            "~0a15~0a3f~0a30~0a2a~0a3e ~0a15~0a30~0a15~0a47 ~0a06~0a2a~0a23~0a40 ~0a38~0a25~0a3f~0a24~0a40 ~0a32~0a08 ~0a35~0a3f~0a38~0a3c~0a47~0a38~0a3c ~0a38~0a32~0a3e~0a39 ~0a32~0a08 ~0a15~0a3f~0a38~0a47 ~0a2f~0a4b~0a17 ~0a15~0a3e~0a28~0a42~0a70~0a28~0a40 ~0a35~0a3f~0a38~0a3c~0a47~0a38~0a3c~0a1c~0a4d~0a1e ~0a28~0a3e~0a32 ~0a38~0a32~0a3e~0a39 ~0a15~0a30~0a4b~0964">>,
          <<"The document contains standard contractual elements",
            "~0a26~0a38~0a24~0a3e~0a35~0a47~0a1c~0a3c ~0a35~0a3f~0a71~0a1a ~0a2e~0a3f~0a06~0a30~0a40 ~0a38~0a70~0a35~0a3f~0a27~0a3e~0a28~0a15 ~0a24~0a71~0a24 ~0a38~0a3c~0a3e~0a2e~0a32 ~0a39~0a28">>,
          <<"including parties' details, consideration clauses, terms of agreement, and signature requirements.",
            "~0a2a~0a3e~0a30~0a1f~0a40~0a06~0a02 ~0a26~0a47 ~0a35~0a47~0a30~0a35~0a3f~0a06~0a02, ~0a35~0a3f~0a1a~0a3e~0a30~0a27~0a3e~0a30~0a3e ~0a27~0a3e~0a30~0a3e~0a35~0a3e~0a02, ~0a38~0a2e~0a1d~0a4c~0a24~0a47 ~0a26~0a40~0a06~0a02 ~0a38~0a3c~0a30~0a24~0a3e~0a02 ~0a05~0a24~0a47 ~0a26~0a38~0a24~0a16~0a24 ~0a26~0a40~0a06~0a02 ~0a32~0a4b~0a5c~0a3e~0a02 ~0a38~0a2e~0a47~0a24~0964">>,
          <<"The agreement appears to establish legally binding obligations between the parties under contract law principles.",
            "~0a38~0a2e~0a1d~0a4c~0a24~0a3e ~0a15~0a3e~0a28~0a42~0a28~0a40 ~0a24~0a4c~0a30 '~0a24~0a47 ~0a2a~0a3e~0a30~0a1f~0a40~0a06~0a02 ~0a26~0a47 ~0a35~0a3f~0a1a~0a15~0a3e~0a30 ~0a2c~0a70~0a28~0a4d~0a39~0a28 ~0a35~0a3e~0a32~0a40~0a06~0a02 ~0a1c~0a3c~0a3f~0a70~0a2e~0a47~0a35~0a3e~0a30~0a40~0a06~0a02 ~0a28~0a42~0a70 ~0a15~0a3e~0a07~0a2e ~0a15~0a30~0a28 ~0a32~0a08 ~0a2a~0a4d~0a30~0a24~0a40~0a24 ~0a39~0a41~0a70~0a26~0a3e ~0a39~0a48~0964">>,
          <<"Terms and conditions governing the relationship between parties are outlined",
            "~0a2a~0a3e~0a30~0a1f~0a40~0a06~0a02 ~0a26~0a47 ~0a35~0a3f~0a1a~0a15~0a3e~0a30 ~0a26~0a47 ~0a30~0a3f~0a38~0a3c~0a24~0a47 ~0a28~0a42~0a70 ~0a28~0a3f~0a2f~0a70~0a24~0a30~0a3f~0a24 ~0a15~0a30~0a28 ~0a35~0a3e~0a32~0a40~0a06~0a02 ~0a38~0a3c~0a30~0a24~0a3e~0a02 ~0a05~0a24~0a47 ~0a38~0a3c~0a30~0a24~0a3e~0a02 ~0a26~0a40 ~0a30~0a42~0a2a~0a30~0a47~0a16~0a3e ~0a26~0a3f~0a71~0a24~0a40 ~0a17~0a08 ~0a39~0a48">>,
          <<"with specific performance requirements.",
            "~0a28~0a3f~0a38~0a3c~0a1a~0a3f~0a24 ~0a2a~0a4d~0a30~0a26~0a30~0a38~0a3c~0a28 ~0a26~0a40~0a06~0a02 ~0a32~0a4b~0a5c~0a3e~0a02 ~0a28~0a3e~0a32~0964">>,
          <<"Liability provisions and risk allocation measures are included",
            "~0a1c~0a3c~0a3f~0a70~0a2e~0a47~0a35~0a3e~0a30~0a40 ~0a26~0a40~0a06~0a02 ~0a2a~0a4d~0a30~0a3e~0a35~0a27~0a3e~0a28~0a3e~0a02 ~0a05~0a24~0a47 ~0a16~0a24~0a30~0a47 ~0a26~0a47 ~0a35~0a70~0a21 ~0a26~0a47 ~0a09~0a2a~0a3e~0a05 ~0a38~0a3c~0a3e~0a2e~0a32 ~0a39~0a28">>,
          <<"to protect the parties' interests.",
            "~0a2a~0a3e~0a30~0a1f~0a40~0a06~0a02 ~0a26~0a47 ~0a39~0a3f~0a24~0a3e~0a02 ~0a26~0a40 ~0a30~0a3e~0a16~0a40 ~0a15~0a30~0a28 ~0a32~0a08~0964">>,
          <<"Termination mechanisms and conditions for contract renewal are specified.",
            "~0a15~0a3e~0a02~0a1f~0a4d~0a30~0a48~0a15~0a1f ~0a28~0a35~0a40~0a28~0a40~0a15~0a30~0a28 ~0a32~0a08 ~0a38~0a2e~0a3e~0a2a~0a24~0a40 ~0a2e~0a15~0a48~0a28~0a3f~0a1c~0a3c~0a2e ~0a05~0a24~0a47 ~0a38~0a3c~0a30~0a24~0a3e~0a02 ~0a26~0a30~0a38~0a3e~0a08~0a06~0a02 ~0a17~0a08~0a06~0a02 ~0a39~0a28~0964">>,
          <<"The respective duties of each party are delineated",
            "~0a39~0a30 ~0a2a~0a3e~0a30~0a1f~0a40 ~0a26~0a47 ~0a38~0a70~0a2c~0a70~0a27~0a3f~0a24 ~0a2b~0a30~0a1c~0a3c~0a3e~0a02 ~0a26~0a40 ~0a30~0a47~0a16~0a3e ~0a16~0a3f~0a71~0a1a~0a40 ~0a17~0a08 ~0a39~0a48">>,
          <<"with specific performance metrics and timelines.",
            "~0a28~0a3f~0a38~0a3c~0a1a~0a3f~0a24 ~0a2a~0a4d~0a30~0a26~0a30~0a38~0a3c~0a28 ~0a2e~0a48~0a1f~0a30~0a3f~0a15~0a38 ~0a05~0a24~0a47 ~0a1f~0a3e~0a08~0a2e~0a32~0a3e~0a08~0a28~0a3e~0a02 ~0a28~0a3e~0a32~0964">>,
          <<"Compliance requirements with relevant laws and regulations are established.",
            "~0a38~0a70~0a2c~0a70~0a27~0a3f~0a24 ~0a15~0a3e~0a28~0a42~0a70~0a28~0a3e~0a02 ~0a05~0a24~0a47 ~0a28~0a3f~0a2f~0a2e~0a3e~0a02 ~0a26~0a47 ~0a28~0a3e~0a32 ~0a05~0a28~0a41~0a15~0a42~0a32~0a24~0a3e ~0a26~0a40~0a06~0a02 ~0a32~0a4b~0a5c~0a3e~0a02 ~0a38~0a25~0a3e~0a2a~0a3f~0a24 ~0a15~0a40~0a24~0a40~0a06~0a02 ~0a1c~0a3e~0a02~0a26~0a40~0a06~0a02 ~0a39~0a28~0964">>,
          <<"Remedy mechanisms in case of breach are provided with specific consequences.",
            "~0a2d~0a70~0a17 ~0a26~0a47 ~0a2e~0a3e~0a2e~0a32~0a47 ~0a35~0a3f~0a71~0a1a ~0a09~0a2a~0a3e~0a05 ~0a26~0a47 ~0a2e~0a15~0a48~0a28~0a3f~0a1c~0a3c~0a2e ~0a28~0a3f~0a38~0a3c~0a1a~0a3f~0a24 ~0a28~0a24~0a40~0a1c~0a3f~0a06~0a02 ~0a28~0a3e~0a32 ~0a2a~0a4d~0a30~0a26~0a3e~0a28 ~0a15~0a40~0a24~0a47 ~0a1c~0a3e~0a02~0a26~0a47 ~0a39~0a28~0964">>,
          <<"The contract creates legally enforceable rights",
            "~0a15~0a3e~0a02~0a1f~0a4d~0a30~0a48~0a15~0a1f ~0a15~0a3e~0a28~0a42~0a70~0a28~0a40 ~0a24~0a4c~0a30 '~0a24~0a47 ~0a32~0a3e~0a17~0a42 ~0a15~0a40~0a24~0a47 ~0a1c~0a3e~0a23 ~0a35~0a3e~0a32~0a47 ~0a05~0a27~0a3f~0a15~0a3e~0a30~0a3e~0a02 ~0a28~0a42~0a70 ~0a2c~0a23~0a3e~0a09~0a02~0a26~0a3e ~0a39~0a48">>,
          <<"that can be upheld through legal proceedings if necessary.",
            "~0a1c~0a47 ~0a32~0a4b~0a5c ~0a2a~0a35~0a47 ~0a24~0a3e~0a02 ~0a15~0a3e~0a28~0a42~0a70~0a28~0a40 ~0a15~0a3e~0a30~0a35~0a3e~0a08 ~0a30~0a3e~0a39~0a40~0a02 ~0a15~0a3e~0a07~0a2e ~0a15~0a40~0a24~0a3e ~0a1c~0a3e ~0a38~0a15~0a26~0a3e ~0a39~0a48~0964">>,
          <<"Under contract law, material breaches may entitle the non-breaching party",
            "~0a15~0a3e~0a02~0a1f~0a4d~0a30~0a48~0a15~0a1f ~0a26~0a47 ~0a15~0a3e~0a28~0a42~0a70~0a28 ~0a26~0a47 ~0a05~0a27~0a40~0a28, ~0a38~0a2e~0a71~0a17~0a30~0a40 ~0a26~0a47 ~0a09~0a32~0a70~0a18~0a23~0a3e~0a02 ~0a17~0a48~0a30-~0a09~0a32~0a70~0a18~0a23 ~0a2a~0a3e~0a30~0a1f~0a40 ~0a28~0a42~0a70 ~0a39~0a71~0a15~0a26~0a3e~0a30 ~0a2c~0a23~0a3e ~0a38~0a15~0a26~0a40~0a06~0a02 ~0a39~0a28">>,
          <<"to remedies including specific performance or damages.",
            "~0a28~0a3f~0a38~0a3c~0a1a~0a3f~0a24 ~0a2a~0a4d~0a30~0a26~0a30~0a38~0a3c~0a28 ~0a1c~0a3e~0a02 ~0a28~0a41~0a15~0a38~0a3e~0a28 ~0a38~0a2e~0a47~0a24 ~0a09~0a2a~0a3e~0a05 ~0a32~0a08~0964">>,
          <<"Ambiguous terms may be interpreted by courts",
            "~0a05~0a38~0a2a~0a38~0a3c~0a1f ~0a38~0a3c~0a30~0a24~0a3e~0a02 ~0a26~0a40 ~0a35~0a3f~0a06~0a16~0a3f~0a06 ~0a05~0a26~0a3e~0a32~0a24~0a3e~0a02 ~0a26~0a41~0a06~0a30~0a3e ~0a15~0a40~0a24~0a40 ~0a1c~0a3e ~0a38~0a15~0a26~0a40 ~0a39~0a48">>,
          <<"according to standard principles of contractual interpretation.",
            "~0a2e~0a3f~0a06~0a30~0a40 ~0a38~0a70~0a35~0a3f~0a27~0a3e~0a28~0a15 ~0a35~0a3f~0a06~0a16~0a3f~0a06 ~0a26~0a47 ~0a38~0a3f~0a27~0a3e~0a02~0a24~0a3e~0a02 ~0a26~0a47 ~0a05~0a28~0a41~0a38~0a3e~0a30~0964">>
        >>>>,
      <<"as",
        <<
          <<"Here's a detailed analysis:",
            "~098f~0987~099f~09cb ~098f~099f~09be ~09ac~09bf~09b8~09cd~09a4~09c3~09a4 ~09ac~09bf~09b6~09cd~09b2~09c7~09b7~09a3:">>,
          <<"Contract Structure and Validity:",
            "~099a~09c1~0995~09cd~09a4~09bf~09f0 ~0997~09a0~09a8 ~0986~09f0~09c1 ~09ac~09c8~09a7~09a4~09be:">>,
          <<"Key Legal Provisions:",
            "~09ae~09c2~09b2 ~0986~0987~09a8~0997~09a4 ~09ac~09cd~09af~09f1~09b8~09cd~09a5~09be:">>,
          <<"Rights and Obligations:",
            "~0985~09a7~09bf~0995~09be~09b0 ~0986~09f0~09c1 ~09a6~09be~09af~09bc~09bf~09a4~09cd~09ac:">>,
          <<"Legal Implications:",
            "~0986~0987~09a8~0997~09a4 ~09aa~09cd~09f0~09ad~09be~09f1:">>,
          <<"Applicable legal frameworks that may be relevant:",
            "~09aa~09cd~09f0~09be~09b8~0982~0997~09bf~0995 ~0986~0987~09a8~0997~09a4 ~0995~09be~09a0~09be~09ae~09cb ~09af~09bf ~09aa~09cd~09f0~09be~09b8~0982~0997~09bf~0995 ~09b9'~09ac ~09aa~09be~09f0~09c7:">>,
          <<"DISCLAIMER:",
            "~0985~09b8~09cd~09ac~09c0~0995~09c3~09a4~09bf:">>,
          <<"This analysis is provided for informational purposes only",
            "~098f~0987 ~09ac~09bf~09b6~09cd~09b2~09c7~09b7~09a3~099f~09cb ~0995~09c7~09f1~09b2 ~09a4~09a5~09cd~09af~0997~09a4 ~0989~09a6~09cd~09a6~09c7~09b6~09cd~09af~09f0 ~09ac~09be~09ac~09c7 ~09aa~09cd~09f0~09a6~09be~09a8 ~0995~09f0~09be ~09b9~09c8~099b~09c7">>,
          <<"and should not be construed as legal advice.",
            "~0986~09f0~09c1 ~0987~09af~09bc~09be~0995 ~0986~0987~09a8~0997~09a4 ~09aa~09f0~09be~09ae~09f0~09cd~09b6 ~09b9~09bf~099a~09be~09aa~09c7 ~09ac~09c1~099c~09be ~0989~099a~09bf~09a4 ~09a8~09b9~09af~09bc~0964">>,
          <<"Please consult with a qualified legal professional for advice specific to your situation.",
            "~09a6~09af~09bc~09be ~0995~09f0~09bf ~0986~09aa~09cb~09a8~09be~09f0 ~09aa~09f0~09bf~09b8~09cd~09a5~09bf~09a4~09bf~09f0 ~09ac~09be~09ac~09c7 ~09ac~09bf~09b6~09c7~09b7 ~09aa~09f0~09be~09ae~09f0~09cd~09b6~09f0 ~09ac~09be~09ac~09c7 ~098f~099c~09a8 ~0985~09f0~09cd~09b9~09a4~09be~09b8~09ae~09cd~09aa~09a8~09cd~09a8 ~0986~0987~09a8 ~09aa~09c7~099a~09be~09a6~09be~09f0~09f0 ~09b8~09c8~09a4~09c7 ~09aa~09f0~09be~09ae~09f0~09cd~09b6 ~0995~09f0~0995~0964">>,
          <<"The document contains standard contractual elements",
            "~09a6~09b8~09cd~09a4~09be~09ac~09c7~099c~099f~09cb~09f0 ~09ad~09bf~09a4~09f0~09a4 ~09ae~09be~09a8~0995 ~099a~09c1~0995~09cd~09a4~09bf~0997~09a4 ~0989~09aa~09be~09a6~09be~09a8~09b8~09ae~09c2~09b9 ~0986~099b~09c7">>,
          <<"including parties' details, consideration clauses, terms of agreement, and signature requirements.",
            "~09aa~09be~09f0~09cd~099f~09c0~09b8~09ae~09c2~09b9~09f0 ~09ac~09bf~09f1~09f0~09a3, ~09ac~09bf~09ac~09c7~099a~09a8~09be ~09a7~09be~09f0~09be, ~099a~09c1~0995~09cd~09a4~09bf~09f0 ~09b6~09b0~09cd~09a4~09be~09ac~09b2~09c0, ~0986~09f0~09c1 ~09b8~09cd~09ac~09be~0995~09cd~09b7~09f0~09f0 ~0986~09f1~09b6~09cd~09af~0995~09a4~09be~09b8~09ae~09c2~09b9 ~0985~09a8~09cd~09a4~09b0~09cd~09ad~09c1~0995~09cd~09a4~0964">>,
          <<"The agreement appears to establish legally binding obligations between the parties under contract law principles.",
            "~099a~09c1~0995~09cd~09a4~09bf ~0986~0987~09a8 ~09aa~09cd~09f0~09bf~09a8~09cd~09b8~09bf~09aa~09b2~09f0 ~0985~09a7~09c0~09a8~09a4 ~09aa~0995~09cd~09b7~09b8~09ae~09c2~09b9~09f0 ~09ae~09be~099c~09a4 ~0986~0987~09a8~0997~09a4~09ad~09be~09f1~09c7 ~09ac~09be~09a7~09cd~09af~09a4~09be~09ae~09c2~09b2~0995 ~09a6~09be~09af~09bc~09bf~09a4~09cd~09ac ~09b8~09cd~09a5~09be~09aa~09a8 ~0995~09f0~09bf~09ac~09b2~09c8 ~099a~09c1~0995~09cd~09a4~09bf~099f~09cb ~09aa~09cd~09f0~09ae~09be~09a3~09bf~09a4 ~09b9~09af~09bc~0964">>,
          <<"Terms and conditions governing the relationship between parties are outlined",
            "~09aa~0995~09cd~09b7~09b8~09ae~09c2~09b9~09f0 ~09ae~09be~099c~09a4 ~09b8~09ae~09cd~09aa~09f0~09cd~0995 ~09a8~09bf~09af~09bc~09a8~09cd~09a4~09cd~09f0~09a3 ~0995~09f0~09be ~09b6~09b0~09cd~09a4 ~0986~09f0~09c1 ~09b6~09b0~09cd~09a4~09be~09f1~09b2~09c0 ~0986~0989~099f~09b2~09be~0987~09a8 ~0995~09f0~09be ~09b9~09c8~099b~09c7">>,
          <<"with specific performance requirements.",
            "~09a8~09bf~09b6~09cd~099a~09bf~09a4 ~0995~09be~09f0~09cd~09af~0995~09cd~09b7~09ae~09a4~09be ~0986~09f1~09b6~09cd~09af~0995~09a4~09be~09b8~09ae~09c2~09b9~09f0 ~09b8~09c8~09a4~09c7~0964">>,
          <<"Liability provisions and risk allocation measures are included",
            "~09a6~09be~09af~09bc~09bf~09a4~09cd~09ac~09f0 ~09ac~09cd~09af~09f1~09b8~09cd~09a5~09be ~0986~09f0~09c1 ~099c~09cb~0996~09ae ~09ac~09a3~09cd~099f~09a8 ~09ac~09cd~09af~09f1~09b8~09cd~09a5~09be ~0985~09a8~09cd~09a4~09b0~09cd~09ad~09c1~0995~09cd~09a4 ~0986~099b~09c7">>,
          <<"to protect the parties' interests.",
            "~09aa~0995~09cd~09b7~09b8~09ae~09c2~09b9~09f0 ~09b8~09cd~09ac~09be~09f0~09cd~09a5 ~09f0~0995~09cd~09b7~09be ~0995~09f0~09bf~09ac~09b2~09c8~0964">>,
          <<"Termination mechanisms and conditions for contract renewal are specified.",
            "~099a~09c1~0995~09cd~09a4~09bf ~09a8~09ac~09c0~0995~09f0~09a3~09f0 ~09ac~09be~09ac~09c7 ~09b8~09ae~09be~09aa~09cd~09a4~09bf~09f0 ~09af~09be~09a8~09cd~09a4~09cd~09b0~09bf~0995~09a4~09be ~0986~09f0~09c1 ~09b6~09b0~09cd~09a4~09be~09f1~09b2~09c0 ~0989~09b2~09cd~09b2~09c7~0996 ~0995~09f0~09be ~09b9~09c8~099b~09c7~0964">>,
          <<"The respective duties of each party are delineated",
            "~09aa~09cd~09f0~09a4~09bf~099f~09cb ~09aa~0995~09cd~09b7~09f0 ~09b8~09ae~09cd~09aa~09f0~09cd~0995~09bf~09a4 ~0995~09f0~09cd~09a4~09ac~09cd~09af~09b8~09ae~09c2~09b9~09f0 ~09f0~09c7~0996~09be~099a~09bf~09a4~09cd~09f0~09bf~09a4">>,
          <<"with specific performance metrics and timelines.",
            "~09a8~09bf~09b6~09cd~099a~09bf~09a4 ~0995~09be~09f0~09cd~09af~0995~09cd~09b7~09ae~09a4~09be ~09ae~09c7~099f~09cd~09f0~09bf~0995~09cd~09b8 ~0986~09f0~09c1 ~09b8~09ae~09af~09bc~09f0~09c7~0996~09be~09b8~09ae~09c2~09b9~09f0 ~09b8~09c8~09a4~09c7~0964">>,
          <<"Compliance requirements with relevant laws and regulations are established.",
            "~09aa~09cd~09f0~09be~09b8~0982~0997~09bf~0995 ~0986~0987~09a8 ~0986~09f0~09c1 ~09a8~09bf~09af~09bc~09ae~09be~09f1~09b2~09c0 ~0985~09a8~09c1~09b8~09f0~09bf ~0985~09a8~09c1~0997~09a4~09bf~09a4~09be~09f0 ~0986~09f1~09b6~09cd~09af~0995~09a4~09be~09b8~09ae~09c2~09b9 ~09b8~09cd~09a5~09be~09aa~09a8 ~0995~09f0~09be ~09b9~09c8~099b~09c7~0964">>,
          <<"Remedy mechanisms in case of breach are provided with specific consequences.",
            "~09ad~0982~0997~09f0 ~0995~09cd~09b7~09c7~09a4~09cd~09f0~09a4 ~099a~09bf~0995~09bf~09ce~09b8~09be~09f0 ~09af~09be~09a8~09cd~09a4~09cd~09b0~09bf~0995~09a4~09be ~09a8~09bf~09f0~09cd~09a6~09bf~09b7~09cd~099f ~09ab~09b2~09be~09ab~09b2~09f0 ~09b8~09c8~09a4~09c7 ~09aa~09cd~09f0~09a6~09be~09a8 ~0995~09f0~09be ~09b9~09af~09bc~0964">>,
          <<"The contract creates legally enforceable rights",
            "~099a~09c1~0995~09cd~09a4~09bf~09af~09bc~09c7 ~0986~0987~09a8~0997~09a4~09ad~09be~09f1~09c7 ~0995~09be~09f0~09cd~09af~0995~09f0~09c0 ~0985~09a7~09bf~0995~09be~09f0 ~09b8~09c3~09b7~09cd~099f~09bf ~0995~09f0~09c7">>,
          <<"that can be upheld through legal proceedings if necessary.",
            "~09af~09a6~09bf ~09aa~09cd~09f0~09af~09bc~09cb~099c~09a8 ~09b9~09af~09bc ~09a4~09c7~09a8~09cd~09a4~09c7 ~0986~0987~09a8~0997~09a4 ~0995~09be~09f0~09cd~09af~09ac~09be~09b9~09c0 ~09ae~09be~09a7~09cd~09af~09ae~09f0 ~099c~09f0~09bf~09af~09bc~09a4~09c7 ~09f0~0995~09cd~09b7~09be ~0995~09f0~09bf~09ac ~09aa~09f0~09be ~09af~09be~09af~09bc~0964">>,
          <<"Under contract law, material breaches may entitle the non-breaching party",
            "~099a~09c1~0995~09cd~09a4~09bf ~0986~0987~09a8~09f0 ~0985~09a7~09c0~09a8~09a4, ~09b8~09be~09ae~0997~09cd~09f0~09c0 ~09ad~0982~0997~09b8~09ae~09c2~09b9 ~0997~09c7~09f0-~09ad~0982~0997~09c0 ~09aa~0995~09cd~09b7~0995 ~0985~09a7~09bf~0995~09be~09f0 ~09a6~09bf~09af~09bc~09be ~09b9'~09ac ~09aa~09be~09f0~09c7">>,
          <<"to remedies including specific performance or damages.",
            "~09a8~09bf~09b6~09cd~099a~09bf~09a4 ~0995~09be~09f0~09cd~09af~0995~09cd~09b7~09ae~09a4~09be ~09ac~09be ~0995~09cd~09b7~09a4~09bf ~09b8~09ae~09c2~09b9~09f0 ~0985~09a8~09cd~09a4~09b0~09cd~09ad~09c1~0995~09cd~09a4 ~099a~09bf~0995~09bf~09ce~09b8~09be~09f0 ~09ac~09be~09ac~09c7~0964">>,
          <<"Ambiguous terms may be interpreted by courts",
            "~0985~09b8~09cd~09aa~09b7~09cd~099f ~09b6~09b0~09cd~09a4~09b8~09ae~09c2~09b9~09f0 ~09ac~09cd~09af~09be~0996~09cd~09af~09be ~0986~09a6~09be~09b2~09a4 ~09a6~09cd~09ac~09be~09f0~09be ~0995~09f0~09be ~09b9'~09ac ~09aa~09be~09f0~09c7">>,
          <<"according to standard principles of contractual interpretation.",
            "~09ae~09be~09a8~0995 ~099a~09c1~0995~09cd~09a4~09bf~0997~09a4 ~09ac~09cd~09af~09be~0996~09cd~09af~09be ~09aa~09cd~09f0~09bf~09a8~09cd~09b8~09bf~09aa~09b2 ~0985~09a8~09c1~09b8~09f0~09bf~0964">>
        >>>>,
      <<"mai",
        <<
          <<"Here's a detailed analysis:",
            "~090f~0939~093f~0920~093e~092e ~090f~0915~091f~093e ~0935~093f~0938~094d~0924~0943~0924 ~0935~093f~0936~094d~0932~0947~0937~0923 ~0905~091b~093f:">>,
          <<"Contract Structure and Validity:",
            "~0905~0928~0941~092c~0902~0927~0915 ~0938~0902~0930~091a~0928~093e ~0906 ~0935~0948~0927~0924~093e:">>,
          <<"Key Legal Provisions:",
            "~092a~094d~0930~092e~0941~0916 ~0915~093e~0928~0942~0928~0940 ~092a~094d~0930~093e~0935~0927~093e~0928:">>,
          <<"Rights and Obligations:",
            "~0905~0927~093f~0915~093e~0930 ~0906 ~0926~093e~092f~093f~0924~094d~0935:">>,
          <<"Legal Implications:",
            "~0915~093e~0928~0942~0928~0940 ~0928~093f~0939~093f~0924~093e~0930~094d~0925:">>,
          <<"Applicable legal frameworks that may be relevant:",
            "~092a~094d~0930~093e~0938~0902~0917~093f~0915 ~0915~093e~0928~0942~0928~0940 ~0922~093e~0901~091a~093e ~091c~0947 ~0938~0902~092c~0902~0927~093f~0924 ~092d' ~0938~0915~0948~0924 ~0905~091b~093f:">>,
          <<"DISCLAIMER:",
            "~0905~0938~094d~0935~0940~0915~0943~0924~093f:">>,
          <<"This analysis is provided for informational purposes only",
            "~0908 ~0935~093f~0936~094d~0932~0947~0937~0923 ~0915~0947~0935~0932 ~0938~0942~091a~0928~093e~0924~094d~092e~0915 ~0909~0926~094d~0926~0947~0936~094d~092f ~0932~0947~0932 ~092a~094d~0930~0926~093e~0928 ~0915~090f~0932 ~0917~0947~0932 ~0905~091b~093f">>,
          <<"and should not be construed as legal advice.",
            "~0906 ~090f~0939~093f ~0915~0947~0901 ~0915~093e~0928~0942~0928~0940 ~0938~0932~093e~0939 ~0915~0947 ~0930~0942~092a ~092e~0947~0902 ~0928~0939~093f ~092c~0941~091d~0932 ~091c~093e~090f~0964">>,
          <<"Please consult with a qualified legal professional for advice specific to your situation.",
            "~0915~0943~092a~092f~093e ~0905~092a~0928 ~0938~094d~0925~093f~0924~093f ~0932~0947~0932 ~0935~093f~0936~093f~0937~094d~091f ~0938~0932~093e~0939 ~0939~0947~0924~0941 ~090f~0915~091f~093e ~092f~094b~0917~094d~092f ~0915~093e~0928~0942~0928~0940 ~092a~0947~0936~0947~0935~0930 ~0938~0901 ~092a~0930~093e~092e~0930~094d~0936 ~0915~0930~0942~0964">>,
          <<"The document contains standard contractual elements",
            "~0926~0938~094d~0924~093e~0935~0947~091c~093c ~092e~0947~0902 ~092e~093e~0928~0915 ~0905~0928~0941~092c~0902~0927 ~0924~0924~094d~0935 ~0936~093e~092e~093f~0932 ~0939~0948~0902">>,
          <<"including parties' details, consideration clauses, terms of agreement, and signature requirements.",
            "~091c~093f~0938~092e~0947~0902 ~092a~0915~094d~0937~094b~0902 ~0915~093e ~0935~093f~0935~0930~0923, ~0935~093f~091a~093e~0930 ~0916~0902~0921, ~0938~092e~091d~094c~0924~0947 ~0915~0940 ~0936~0930~094d~0924~0947~0902 ~0914~0930 ~0939~0938~094d~0924~093e~0915~094d~0937~0930 ~0906~0935~0936~094d~092f~0915~0924~093e~090f~0902 ~0936~093e~092e~093f~0932 ~0939~0948~0902~0964">>,
          <<"The agreement appears to establish legally binding obligations between the parties under contract law principles.",
            "~0938~092e~091d~094c~0924~093e ~0905~0928~0941~092c~0902~0927 ~0915~093e~0928~0942~0928 ~0915~0947 ~0938~093f~0926~094d~0927~093e~0902~0924~094b~0902 ~0915~0947 ~0924~0939~0924 ~092a~0915~094d~0937~094b~0902 ~0915~0947 ~092c~0940~091a ~0915~093e~0928~0942~0928~0940 ~0930~0942~092a ~0938~0947 ~092c~093e~0927~094d~092f~0915~093e~0930~0940 ~0926~093e~092f~093f~0924~094d~0935~094b~0902 ~0915~094b ~0938~094d~0925~093e~092a~093f~0924 ~0915~0930~0924~093e ~092a~094d~0930~0924~0940~0924 ~0939~094b~0924~093e ~0939~0948~0964">>,
          <<"Terms and conditions governing the relationship between parties are outlined",
            "~092a~0915~094d~0937~094b~0902 ~0915~0947 ~092c~0940~091a ~0938~0902~092c~0902~0927~094b~0902 ~0915~094b ~0928~093f~092f~0902~0924~094d~0930~093f~0924 ~0915~0930~0928~0947 ~0935~093e~0932~0947 ~0928~093f~092f~092e ~0914~0930 ~0936~0930~094d~0924~094b~0902 ~0915~093e ~0909~0932~094d~0932~0947~0916 ~0915~093f~092f~093e ~0917~092f~093e ~0939~0948">>,
          <<"with specific performance requirements.",
            "~0935~093f~0936~093f~0937~094d~091f ~092a~094d~0930~0926~0930~094d~0936~0928 ~0906~0935~0936~094d~092f~0915~0924~093e~0913~0902 ~0915~0947 ~0938~093e~0925~0964">>,
          <<"Liability provisions and risk allocation measures are included",
            "~0926~0947~092f~0924~093e ~092a~094d~0930~093e~0935~0927~093e~0928 ~0914~0930 ~091c~094b~0916~093f~092e ~0906~0935~0902~091f~0928 ~0909~092a~093e~092f ~0936~093e~092e~093f~0932 ~0939~0948~0902">>,
          <<"to protect the parties' interests.",
            "~092a~0915~094d~0937~094b~0902 ~0915~0947 ~0939~093f~0924~094b~0902 ~0915~0940 ~0930~0915~094d~0937~093e ~0915~0947 ~0932~093f~090f~0964">>,
          <<"Termination mechanisms and conditions for contract renewal are specified.",
            "~0938~092e~093e~092a~094d~0924~093f ~0924~0902~0924~094d~0930 ~0914~0930 ~0905~0928~0941~092c~0902~0927 ~0928~0935~0940~0928~0940~0915~0930~0923 ~0915~0947 ~0932~093f~090f ~0936~0930~094d~0924~0947~0902 ~0928~093f~0930~094d~0926~093f~0937~094d~091f ~0939~0948~0902~0964">>,
          <<"The respective duties of each party are delineated",
            "~092a~094d~0930~0924~094d~092f~0947~0915 ~092a~0915~094d~0937 ~0915~0947 ~0938~0902~092c~0902~0927~093f~0924 ~0915~0930~094d~0924~0935~094d~092f~094b~0902 ~0915~093e ~0938~0940~092e~093e~0902~0915~0928 ~0915~093f~092f~093e ~0917~092f~093e ~0939~0948">>,
          <<"with specific performance metrics and timelines.",
            "~0935~093f~0936~093f~0937~094d~091f ~092a~094d~0930~0926~0930~094d~0936~0928 ~092e~0947~091f~094d~0930~093f~0915~094d~0938 ~0914~0930 ~0938~092e~092f~0938~0940~092e~093e ~0915~0947 ~0938~093e~0925~0964">>,
          <<"Compliance requirements with relevant laws and regulations are established.",
            "~092a~094d~0930~093e~0938~0902~0917~093f~0915 ~0915~093e~0928~0942~0928~094b~0902 ~0914~0930 ~0935~093f~0928~093f~092f~092e~094b~0902 ~0915~0947 ~0905~0928~0941~092a~093e~0932~0928 ~0915~0940 ~0906~0935~0936~094d~092f~0915~0924~093e~090f~0902 ~0938~094d~0925~093e~092a~093f~0924 ~0915~0940 ~0917~0908 ~0939~0948~0902~0964">>,
          <<"Remedy mechanisms in case of breach are provided with specific consequences.",
            "~0909~0932~094d~0932~0902~0918~0928 ~0915~0947 ~092e~093e~092e~0932~0947 ~092e~0947~0902 ~0909~092a~091a~093e~0930 ~0924~0902~0924~094d~0930 ~0935~093f~0936~093f~0937~094d~091f ~092a~0930~093f~0923~093e~092e~094b~0902 ~0915~0947 ~0938~093e~0925 ~092a~094d~0930~0926~093e~0928 ~0915~093f~090f ~0917~090f ~0939~0948~0902~0964">>,
          <<"The contract creates legally enforceable rights",
            "~0905~0928~0941~092c~0902~0927 ~0915~093e~0928~0942~0928~0940 ~0930~0942~092a ~0938~0947 ~0932~093e~0917~0942 ~0915~0930~0928~0947 ~092f~094b~0917~094d~092f ~0905~0927~093f~0915~093e~0930 ~092c~0928~093e~0924~093e ~0939~0948">>,
          <<"that can be upheld through legal proceedings if necessary.",
            "~091c~093f~0928~094d~0939~0947~0902 ~0906~0935~0936~094d~092f~0915~0924~093e ~092a~0921~093c~0928~0947 ~092a~0930 ~0915~093e~0928~0942~0928~0940 ~0915~093e~0930~094d~092f~0935~093e~0939~0940 ~0915~0947 ~092e~093e~0927~094d~092f~092e ~0938~0947 ~092c~0928~093e~090f ~0930~0916~093e ~091c~093e ~0938~0915~0924~093e ~0939~0948~0964">>,
          <<"Under contract law, material breaches may entitle the non-breaching party",
            "~0905~0928~0941~092c~0902~0927 ~0915~093e~0928~0942~0928 ~0915~0947 ~0924~0939~0924, ~092d~094c~0924~093f~0915 ~0909~0932~094d~0932~0902~0918~0928 ~0917~0948~0930-~0909~0932~094d~0932~0902~0918~0928~0915~0930~094d~0924~093e ~092a~0915~094d~0937 ~0915~094b ~0939~0915~0926~093e~0930 ~092c~0928~093e ~0938~0915~0924~093e ~0939~0948">>,
          <<"to remedies including specific performance or damages.",
            "~0935~093f~0936~093f~0937~094d~091f ~092a~094d~0930~0926~0930~094d~0936~0928 ~092f~093e ~0915~094d~0937~0924~093f ~0938~0939~093f~0924 ~0909~092a~091a~093e~0930~094b~0902 ~0915~0947 ~0932~093f~090f~0964">>,
          <<"Ambiguous terms may be interpreted by courts",
            "~0905~0938~094d~092a~0937~094d~091f ~0936~092c~094d~0926~094b~0902 ~0915~0940 ~0935~094d~092f~093e~0916~094d~092f~093e ~0905~0926~093e~0932~0924~094b~0902 ~0926~094d~0935~093e~0930~093e ~0915~0940 ~091c~093e ~0938~0915~0924~0940 ~0939~0948">>,
          <<"according to standard principles of contractual interpretation.",
            "~0905~0928~0941~092c~0902~0927 ~0935~094d~092f~093e~0916~094d~092f~093e ~0915~0947 ~092e~093e~0928~0915 ~0938~093f~0926~094d~0927~093e~0902~0924~094b~0902 ~0915~0947 ~0905~0928~0941~0938~093e~0930~0964">>
        >>>>,
      <<"sat",
        <<
          <<"Here's a detailed analysis:",
            "~1c75~1c5f~1c79~1c68 ~1c60~1c5f~1c5c~1c5a~1c61 ~1c6b~16a2 ~1c62~1c64~1c6b ~1c5f~1c6d~1c64~1c71 ~1c5c~1c5f~1c71~1c5b~1c5f~1c60 ~1c60~1c5f~1c71~1c5f ~1c62~1c6e~1c71~1c5b~1c6e ~1c67~1c6e~1c5e~1c5a~1c5c-~1c5f">>,
          <<"Contract Structure and Validity:",
            "~1c60~1c5a~1c71~1c5b~1c77~1c5f~1c5c ~1c65~1c5f~1c68~1c5c~1c5f~1c79~1c68 ~1c5f~1c79~1c68~1c60~1c5f~1c79~1c68 ~1c60~1c5a~1c71~1c5b~1c77~1c5f~1c5c ~1c60~1c5a~1c71~1c5b~1c77~1c5f~1c5c ~1c60~1c5f~1c5c~1c5a~1c61 ~1c60~1c5a~1c71~1c5b~1c77~1c5f~1c5c ~1c60~1c5f~1c5c~1c5a~1c61">>,
          <<"Key Legal Provisions:",
            "~1c60~1c5a~1c71~1c5b~1c77~1c5f~1c5c ~1c60~1c5a~1c71~1c5b~1c77~1c5f~1c5c ~1c60~1c5f~1c5c~1c5a~1c61 ~1c60~1c5a~1c71~1c5b~1c77~1c5f~1c5c ~1c60~1c5a~1c71~1c5b~1c77~1c5f~1c5c ~1c60~1c5f~1c5c~1c5a~1c61">>,
          <<"Rights and Obligations:",
            "~1c5f~1c79~1c68~1c60~1c5f~1c79~1c68 ~1c60~1c5a~1c71~1c5b~1c77~1c5f~1c5c ~1c60~1c5a~1c71~1c5b~1c77~1c5f~1c5c ~1c60~1c5f~1c5c~1c5a~1c61 ~1c60~1c5a~1c71~1c5b~1c77~1c5f~1c5c ~1c60~1c5a~1c71~1c5b~1c77~1c5f~1c5c ~1c60~1c5f~1c5c~1c5a~1c61">>,
          <<"Legal Implications:",
            "~1c5f~1c79~1c68~1c60~1c5f~1c79~1c68 ~1c60~1c5a~1c71~1c5b~1c77~1c5f~1c5c ~1c60~1c5a~1c71~1c5b~1c77~1c5f~1c5c ~1c60~1c5f~1c5c~1c5a~1c61 ~1c60~1c5a~1c71~1c5b~1c77~1c5f~1c5c ~1c60~1c5a~1c71~1c5b~1c77~1c5f~1c5c ~1c60~1c5f~1c5c~1c5a~1c61">>,
          <<"Applicable legal frameworks that may be relevant:",
            "~1c5f~1c79~1c68~1c60~1c5f~1c79~1c68 ~1c60~1c5a~1c71~1c5b~1c77~1c5f~1c5c ~1c60~1c5a~1c71~1c5b~1c77~1c5f~1c5c ~1c60~1c5f~1c5c~1c5a~1c61 ~1c60~1c5a~1c71~1c5b~1c77~1c5f~1c5c ~1c60~1c5a~1c71~1c5b~1c77~1c5f~1c5c ~1c60~1c5f~1c5c~1c5a~1c61">>,
          <<"DISCLAIMER:",
            "~1c5f~1c79~1c68~1c60~1c5f~1c79~1c68 ~1c60~1c5a~1c71~1c5b~1c77~1c5f~1c5c ~1c60~1c5a~1c71~1c5b~1c77~1c5f~1c5c ~1c60~1c5f~1c5c~1c5a~1c61 ~1c60~1c5a~1c71~1c5b~1c77~1c5f~1c5c ~1c60~1c5a~1c71~1c5b~1c77~1c5f~1c5c ~1c60~1c5f~1c5c~1c5a~1c61">>,
          <<"This analysis is provided for informational purposes only",
            "~1c5f~1c79~1c68~1c60~1c5f~1c79~1c68 ~1c60~1c5a~1c71~1c5b~1c77~1c5f~1c5c ~1c60~1c5a~1c71~1c5b~1c77~1c5f~1c5c ~1c60~1c5f~1c5c~1c5a~1c61 ~1c60~1c5a~1c71~1c5b~1c77~1c5f~1c5c ~1c60~1c5a~1c71~1c5b~1c77~1c5f~1c5c ~1c60~1c5f~1c5c~1c5a~1c61">>,
          <<"and should not be construed as legal advice.",
            "~1c5f~1c79~1c68~1c60~1c5f~1c79~1c68 ~1c60~1c5a~1c71~1c5b~1c77~1c5f~1c5c ~1c60~1c5a~1c71~1c5b~1c77~1c5f~1c5c ~1c60~1c5f~1c5c~1c5a~1c61 ~1c60~1c5a~1c71~1c5b~1c77~1c5f~1c5c ~1c60~1c5a~1c71~1c5b~1c77~1c5f~1c5c ~1c60~1c5f~1c5c~1c5a~1c61">>,
          <<"Please consult with a qualified legal professional for advice specific to your situation.",
            "~1c5f~1c79~1c68~1c60~1c5f~1c79~1c68 ~1c60~1c5a~1c71~1c5b~1c77~1c5f~1c5c ~1c60~1c5a~1c71~1c5b~1c77~1c5f~1c5c ~1c60~1c5f~1c5c~1c5a~1c61 ~1c60~1c5a~1c71~1c5b~1c77~1c5f~1c5c ~1c60~1c5a~1c71~1c5b~1c77~1c5f~1c5c ~1c60~1c5f~1c5c~1c5a~1c61">>,
          <<"The document contains standard contractual elements",
            "~1c5f~1c79~1c68~1c60~1c5f~1c79~1c68 ~1c60~1c5a~1c71~1c5b~1c77~1c5f~1c5c ~1c60~1c5a~1c71~1c5b~1c77~1c5f~1c5c ~1c60~1c5f~1c5c~1c5a~1c61 ~1c60~1c5a~1c71~1c5b~1c77~1c5f~1c5c ~1c60~1c5a~1c71~1c5b~1c77~1c5f~1c5c ~1c60~1c5f~1c5c~1c5a~1c61">>,
          <<"including parties' details, consideration clauses, terms of agreement, and signature requirements.",
            "~1c5f~1c79~1c68~1c60~1c5f~1c79~1c68 ~1c60~1c5a~1c71~1c5b~1c77~1c5f~1c5c ~1c60~1c5a~1c71~1c5b~1c77~1c5f~1c5c ~1c60~1c5f~1c5c~1c5a~1c61 ~1c60~1c5a~1c71~1c5b~1c77~1c5f~1c5c ~1c60~1c5a~1c71~1c5b~1c77~1c5f~1c5c ~1c60~1c5f~1c5c~1c5a~1c61">>,
          <<"The agreement appears to establish legally binding obligations between the parties under contract law principles.",
            "~1c5f~1c79~1c68~1c60~1c5f~1c79~1c68 ~1c60~1c5a~1c71~1c5b~1c77~1c5f~1c5c ~1c60~1c5a~1c71~1c5b~1c77~1c5f~1c5c ~1c60~1c5f~1c5c~1c5a~1c61 ~1c60~1c5a~1c71~1c5b~1c77~1c5f~1c5c ~1c60~1c5a~1c71~1c5b~1c77~1c5f~1c5c ~1c60~1c5f~1c5c~1c5a~1c61">>,
          <<"Terms and conditions governing the relationship between parties are outlined",
            "~1c5f~1c79~1c68~1c60~1c5f~1c79~1c68 ~1c60~1c5a~1c71~1c5b~1c77~1c5f~1c5c ~1c60~1c5a~1c71~1c5b~1c77~1c5f~1c5c ~1c60~1c5f~1c5c~1c5a~1c61 ~1c60~1c5a~1c71~1c5b~1c77~1c5f~1c5c ~1c60~1c5a~1c71~1c5b~1c77~1c5f~1c5c ~1c60~1c5f~1c5c~1c5a~1c61">>,
          <<"with specific performance requirements.",
            "~1c5f~1c79~1c68~1c60~1c5f~1c79~1c68 ~1c60~1c5a~1c71~1c5b~1c77~1c5f~1c5c ~1c60~1c5a~1c71~1c5b~1c77~1c5f~1c5c ~1c60~1c5f~1c5c~1c5a~1c61 ~1c60~1c5a~1c71~1c5b~1c77~1c5f~1c5c ~1c60~1c5a~1c71~1c5b~1c77~1c5f~1c5c ~1c60~1c5f~1c5c~1c5a~1c61">>,
          <<"Liability provisions and risk allocation measures are included",
            "~1c5f~1c79~1c68~1c60~1c5f~1c79~1c68 ~1c60~1c5a~1c71~1c5b~1c77~1c5f~1c5c ~1c60~1c5a~1c71~1c5b~1c77~1c5f~1c5c ~1c60~1c5f~1c5c~1c5a~1c61 ~1c60~1c5a~1c71~1c5b~1c77~1c5f~1c5c ~1c60~1c5a~1c71~1c5b~1c77~1c5f~1c5c ~1c60~1c5f~1c5c~1c5a~1c61">>,
          <<"to protect the parties' interests.",
            "~1c5f~1c79~1c68~1c60~1c5f~1c79~1c68 ~1c60~1c5a~1c71~1c5b~1c77~1c5f~1c5c ~1c60~1c5a~1c71~1c5b~1c77~1c5f~1c5c ~1c60~1c5f~1c5c~1c5a~1c61 ~1c60~1c5a~1c71~1c5b~1c77~1c5f~1c5c ~1c60~1c5a~1c71~1c5b~1c77~1c5f~1c5c ~1c60~1c5f~1c5c~1c5a~1c61">>,
          <<"Termination mechanisms and conditions for contract renewal are specified.",
            "~1c5f~1c79~1c68~1c60~1c5f~1c79~1c68 ~1c60~1c5a~1c71~1c5b~1c77~1c5f~1c5c ~1c60~1c5a~1c71~1c5b~1c77~1c5f~1c5c ~1c60~1c5f~1c5c~1c5a~1c61 ~1c60~1c5a~1c71~1c5b~1c77~1c5f~1c5c ~1c60~1c5a~1c71~1c5b~1c77~1c5f~1c5c ~1c60~1c5f~1c5c~1c5a~1c61">>,
          <<"The respective duties of each party are delineated",
            "~1c5f~1c79~1c68~1c60~1c5f~1c79~1c68 ~1c60~1c5a~1c71~1c5b~1c77~1c5f~1c5c ~1c60~1c5a~1c71~1c5b~1c77~1c5f~1c5c ~1c60~1c5f~1c5c~1c5a~1c61 ~1c60~1c5a~1c71~1c5b~1c77~1c5f~1c5c ~1c60~1c5a~1c71~1c5b~1c77~1c5f~1c5c ~1c60~1c5f~1c5c~1c5a~1c61">>,
          <<"with specific performance metrics and timelines.",
            "~1c5f~1c79~1c68~1c60~1c5f~1c79~1c68 ~1c60~1c5a~1c71~1c5b~1c77~1c5f~1c5c ~1c60~1c5a~1c71~1c5b~1c77~1c5f~1c5c ~1c60~1c5f~1c5c~1c5a~1c61 ~1c60~1c5a~1c71~1c5b~1c77~1c5f~1c5c ~1c60~1c5a~1c71~1c5b~1c77~1c5f~1c5c ~1c60~1c5f~1c5c~1c5a~1c61">>,
          <<"Compliance requirements with relevant laws and regulations are established.",
            "~1c5f~1c79~1c68~1c60~1c5f~1c79~1c68 ~1c60~1c5a~1c71~1c5b~1c77~1c5f~1c5c ~1c60~1c5a~1c71~1c5b~1c77~1c5f~1c5c ~1c60~1c5f~1c5c~1c5a~1c61 ~1c60~1c5a~1c71~1c5b~1c77~1c5f~1c5c ~1c60~1c5a~1c71~1c5b~1c77~1c5f~1c5c ~1c60~1c5f~1c5c~1c5a~1c61">>,
          <<"Remedy mechanisms in case of breach are provided with specific consequences.",
            "~1c5f~1c79~1c68~1c60~1c5f~1c79~1c68 ~1c60~1c5a~1c71~1c5b~1c77~1c5f~1c5c ~1c60~1c5a~1c71~1c5b~1c77~1c5f~1c5c ~1c60~1c5f~1c5c~1c5a~1c61 ~1c60~1c5a~1c71~1c5b~1c77~1c5f~1c5c ~1c60~1c5a~1c71~1c5b~1c77~1c5f~1c5c ~1c60~1c5f~1c5c~1c5a~1c61">>,
          <<"The contract creates legally enforceable rights",
            "~1c5f~1c79~1c68~1c60~1c5f~1c79~1c68 ~1c60~1c5a~1c71~1c5b~1c77~1c5f~1c5c ~1c60~1c5a~1c71~1c5b~1c77~1c5f~1c5c ~1c60~1c5f~1c5c~1c5a~1c61 ~1c60~1c5a~1c71~1c5b~1c77~1c5f~1c5c ~1c60~1c5a~1c71~1c5b~1c77~1c5f~1c5c ~1c60~1c5f~1c5c~1c5a~1c61">>,
          <<"that can be upheld through legal proceedings if necessary.",
            "~1c5f~1c79~1c68~1c60~1c5f~1c79~1c68 ~1c60~1c5a~1c71~1c5b~1c77~1c5f~1c5c ~1c60~1c5a~1c71~1c5b~1c77~1c5f~1c5c ~1c60~1c5f~1c5c~1c5a~1c61 ~1c60~1c5a~1c71~1c5b~1c77~1c5f~1c5c ~1c60~1c5a~1c71~1c5b~1c77~1c5f~1c5c ~1c60~1c5f~1c5c~1c5a~1c61">>,
          <<"Under contract law, material breaches may entitle the non-breaching party",
            "~1c5f~1c79~1c68~1c60~1c5f~1c79~1c68 ~1c60~1c5a~1c71~1c5b~1c77~1c5f~1c5c ~1c60~1c5a~1c71~1c5b~1c77~1c5f~1c5c ~1c60~1c5f~1c5c~1c5a~1c61 ~1c60~1c5a~1c71~1c5b~1c77~1c5f~1c5c ~1c60~1c5a~1c71~1c5b~1c77~1c5f~1c5c ~1c60~1c5f~1c5c~1c5a~1c61">>,
          <<"to remedies including specific performance or damages.",
            "~1c5f~1c79~1c68~1c60~1c5f~1c79~1c68 ~1c60~1c5a~1c71~1c5b~1c77~1c5f~1c5c ~1c60~1c5a~1c71~1c5b~1c77~1c5f~1c5c ~1c60~1c5f~1c5c~1c5a~1c61 ~1c60~1c5a~1c71~1c5b~1c77~1c5f~1c5c ~1c60~1c5a~1c71~1c5b~1c77~1c5f~1c5c ~1c60~1c5f~1c5c~1c5a~1c61">>,
          <<"Ambiguous terms may be interpreted by courts",
            "~1c5f~1c79~1c68~1c60~1c5f~1c79~1c68 ~1c60~1c5a~1c71~1c5b~1c77~1c5f~1c5c ~1c60~1c5a~1c71~1c5b~1c77~1c5f~1c5c ~1c60~1c5f~1c5c~1c5a~1c61 ~1c60~1c5a~1c71~1c5b~1c77~1c5f~1c5c ~1c60~1c5a~1c71~1c5b~1c77~1c5f~1c5c ~1c60~1c5f~1c5c~1c5a~1c61">>,
          <<"according to standard principles of contractual interpretation.",
            "~1c5f~1c79~1c68~1c60~1c5f~1c79~1c68 ~1c60~1c5a~1c71~1c5b~1c77~1c5f~1c5c ~1c60~1c5a~1c71~1c5b~1c77~1c5f~1c5c ~1c60~1c5f~1c5c~1c5a~1c61 ~1c60~1c5a~1c71~1c5b~1c77~1c5f~1c5c ~1c60~1c5a~1c71~1c5b~1c77~1c5f~1c5c ~1c60~1c5f~1c5c~1c5a~1c61">>
        >>>>
    >>

\* sample_phrases: for each language the phrases and their translations, in the
\* order of the dict
sample_phrases ==
    <<
      <<"hi",
        <<
          <<"This document appears to be a legal contract",
            "~092f~0939 ~0926~0938~094d~0924~093e~0935~0947~091c~093c ~090f~0915 ~0915~093e~0928~0942~0928~0940 ~0905~0928~0941~092c~0902~0927 ~092a~094d~0930~0924~0940~0924 ~0939~094b~0924~093e ~0939~0948">>,
          <<"Contains standard contract clauses",
            "~092e~093e~0928~0915 ~0905~0928~0941~092c~0902~0927 ~0916~0902~0921 ~0936~093e~092e~093f~0932 ~0939~0948~0902">>,
          <<"The agreement is valid for one year",
            "~0938~092e~091d~094c~0924~093e ~090f~0915 ~0935~0930~094d~0937 ~0915~0947 ~0932~093f~090f ~092e~093e~0928~094d~092f ~0939~0948">>,
          <<"Requires signature of both parties",
            "~0926~094b~0928~094b~0902 ~092a~0915~094d~0937~094b~0902 ~0915~0947 ~0939~0938~094d~0924~093e~0915~094d~0937~0930 ~0915~0940 ~0906~0935~0936~094d~092f~0915~0924~093e ~0939~0948">>,
          <<"Legal document",
            "~0915~093e~0928~0942~0928~0940 ~0926~0938~094d~0924~093e~0935~0947~091c~093c">>,
          <<"Contract",
            "~0905~0928~0941~092c~0902~0927">>,
          <<"Summary",
            "~0938~0902~0917~094d~0930~0939">>,
          <<"Key points",
            "~092a~094d~0930~092e~0941~0916 ~092c~093f~0902~0926~0941">>,
          <<"Indian Contract Act, 1872",
            "~092d~093e~0930~0924~0940~092f ~0905~0928~0941~092c~0902~0927 ~0905~0927~093f~0928~093f~092f~092e, 1872">>,
          <<"Foreign Exchange Management Act, 1999",
            "~0935~093f~0926~0947~0936~0940 ~092e~0941~0926~094d~0930~093e ~092a~094d~0930~092c~0902~0927~0928 ~0905~0927~093f~0928~093f~092f~092e, 1999">>,
          <<"Specific Relief Act, 1963",
            "~0935~093f~0936~093f~0937~094d~091f ~0930~093e~0939~0924 ~0905~0927~093f~0928~093f~092f~092e, 1963">>
        >>>>,
      <<"bn",
        <<
          <<"This document appears to be a legal contract",
            "~098f~0987 ~09a8~09a5~09bf~099f~09bf ~098f~0995~099f~09bf ~0986~0987~09a8~09bf ~099a~09c1~0995~09cd~09a4~09bf ~09ac~09b2~09c7 ~09ae~09a8~09c7 ~09b9~099a~09cd~099b~09c7">>,
          <<"Contains standard contract clauses",
            "~09b8~09cd~099f~09cd~09af~09be~09a8~09cd~09a1~09be~09b0~09cd~09a1 ~099a~09c1~0995~09cd~09a4~09bf~09b0 ~09a7~09be~09b0~09be ~0985~09a8~09cd~09a4~09b0~09cd~09ad~09c1~0995~09cd~09a4">>,
          <<"The agreement is valid for one year",
            "~099a~09c1~0995~09cd~09a4~09bf~099f~09bf ~098f~0995 ~09ac~099b~09b0~09c7~09b0 ~099c~09a8~09cd~09af ~09ac~09c8~09a7">>,
          <<"Requires signature of both parties",
            "~0989~09ad~09af~09bc ~09aa~0995~09cd~09b7~09c7~09b0 ~09b8~09cd~09ac~09be~0995~09cd~09b7~09b0 ~09aa~09cd~09b0~09af~09bc~09cb~099c~09a8">>,
          <<"Legal document",
            "~0986~0987~09a8~09bf ~09a8~09a5~09bf">>,
          <<"Contract",
            "~099a~09c1~0995~09cd~09a4~09bf">>,
          <<"Summary",
            "~09b8~09be~09b0~09b8~0982~0995~09cd~09b7~09c7~09aa">>,
          <<"Key points",
            "~09ae~09c2~09b2 ~09ac~09bf~09b7~09af~09bc~0997~09c1~09b2~09bf">>
        >>>>,
      <<"te",
        <<
          <<"This document appears to be a legal contract",
            "~0c08 ~0c2a~0c24~0c4d~0c30~0c02 ~0c1a~0c1f~0c4d~0c1f~0c2a~0c30~0c2e~0c48~0c28 ~0c12~0c2a~0c4d~0c2a~0c02~0c26~0c02~0c17~0c3e ~0c15~0c28~0c3f~0c2a~0c3f~0c38~0c4d~0c24~0c4b~0c02~0c26~0c3f">>,
          <<"Contains standard contract clauses",
            "~0c2a~0c4d~0c30~0c3e~0c2e~0c3e~0c23~0c3f~0c15 ~0c12~0c2a~0c4d~0c2a~0c02~0c26 ~0c28~0c3f~0c2c~0c02~0c27~0c28~0c32~0c28~0c41 ~0c15~0c32~0c3f~0c17~0c3f ~0c09~0c02~0c26~0c3f">>,
          <<"The agreement is valid for one year",
            "~0c12~0c2a~0c4d~0c2a~0c02~0c26~0c02 ~0c12~0c15 ~0c38~0c02~0c35~0c24~0c4d~0c38~0c30~0c02 ~0c2a~0c3e~0c1f~0c41 ~0c1a~0c46~0c32~0c4d~0c32~0c41~0c2c~0c3e~0c1f~0c41 ~0c05~0c35~0c41~0c24~0c41~0c02~0c26~0c3f">>,
          <<"Requires signature of both parties",
            "~0c07~0c30~0c41 ~0c2a~0c15~0c4d~0c37~0c3e~0c32 ~0c38~0c02~0c24~0c15~0c02 ~0c05~0c35~0c38~0c30~0c02">>,
          <<"Legal document",
            "~0c1a~0c1f~0c4d~0c1f~0c2a~0c30~0c2e~0c48~0c28 ~0c2a~0c24~0c4d~0c30~0c02">>,
          <<"Contract",
            "~0c12~0c2a~0c4d~0c2a~0c02~0c26~0c02">>,
          <<"Summary",
            "~0c38~0c3e~0c30~0c3e~0c02~0c36~0c02">>,
          <<"Key points",
            "~0c2e~0c41~0c16~0c4d~0c2f ~0c05~0c02~0c36~0c3e~0c32~0c41">>
        >>>>,
      <<"mr",
        <<
          <<"This document appears to be a legal contract",
            "~0939~093e ~0926~0938~094d~0924~093e~0935~0947~091c ~0915~093e~092f~0926~0947~0936~0940~0930 ~0915~0930~093e~0930 ~0905~0938~0932~094d~092f~093e~091a~0947 ~0926~093f~0938~0924~0947">>,
          <<"Contains standard contract clauses",
            "~092e~093e~0928~0915 ~0915~0930~093e~0930 ~0915~0932~092e~0947 ~0938~092e~093e~0935~093f~0937~094d~091f ~0906~0939~0947~0924">>,
          <<"The agreement is valid for one year",
            "~0915~0930~093e~0930 ~090f~0915 ~0935~0930~094d~0937~093e~0938~093e~0920~0940 ~0935~0948~0927 ~0906~0939~0947">>,
          <<"Requires signature of both parties",
            "~0926~094b~0928~094d~0939~0940 ~092a~0915~094d~0937~093e~0902~091a~094d~092f~093e ~0938~094d~0935~093e~0915~094d~0937~0930~0940~091a~0940 ~0906~0935~0936~094d~092f~0915~0924~093e ~0906~0939~0947">>,
          <<"Legal document",
            "~0915~093e~092f~0926~0947~0936~0940~0930 ~0926~0938~094d~0924~093e~0935~0947~091c">>,
          <<"Contract",
            "~0915~0930~093e~0930">>,
          <<"Summary",
            "~0938~093e~0930~093e~0902~0936">>,
          <<"Key points",
            "~092e~0941~0916~094d~092f ~092e~0941~0926~094d~0926~0947">>
        >>>>,
      <<"ta",
        <<
          <<"This document appears to be a legal contract",
            "~0b87~0ba8~0bcd~0ba4 ~0b86~0bb5~0ba3~0bae~0bcd ~0b92~0bb0~0bc1 ~0b9a~0b9f~0bcd~0b9f ~0b92~0baa~0bcd~0baa~0ba8~0bcd~0ba4~0bae~0bbe~0b95 ~0ba4~0bc6~0bb0~0bbf~0b95~0bbf~0bb1~0ba4~0bc1">>,
          <<"Contains standard contract clauses",
            "~0ba8~0bbf~0bb2~0bc8~0baf~0bbe~0ba9 ~0b92~0baa~0bcd~0baa~0ba8~0bcd~0ba4 ~0bb5~0bbf~0ba4~0bbf~0b95~0bb3~0bc8~0b95~0bcd ~0b95~0bca~0ba3~0bcd~0b9f~0bc1~0bb3~0bcd~0bb3~0ba4~0bc1">>,
          <<"The agreement is valid for one year",
            "~0b92~0baa~0bcd~0baa~0ba8~0bcd~0ba4~0bae~0bcd ~0b92~0bb0~0bc1 ~0bb5~0bb0~0bc1~0b9f~0ba4~0bcd~0ba4~0bbf~0bb1~0bcd~0b95~0bc1 ~0b9a~0bc6~0bb2~0bcd~0bb2~0bc1~0baa~0b9f~0bbf~0baf~0bbe~0b95~0bc1~0bae~0bcd">>,
          <<"Requires signature of both parties",
            "~0b87~0bb0~0bc1 ~0ba4~0bb0~0baa~0bcd~0baa~0bbf~0ba9~0bb0~0bbf~0ba9~0bcd ~0b95~0bc8~0baf~0bca~0baa~0bcd~0baa~0bae~0bcd ~0ba4~0bc7~0bb5~0bc8">>,
          <<"Legal document",
            "~0b9a~0b9f~0bcd~0b9f ~0b86~0bb5~0ba3~0bae~0bcd">>,
          <<"Contract",
            "~0b92~0baa~0bcd~0baa~0ba8~0bcd~0ba4~0bae~0bcd">>,
          <<"Summary",
            "~0b9a~0bc1~0bb0~0bc1~0b95~0bcd~0b95~0bae~0bcd">>,
          <<"Key points",
            "~0bae~0bc1~0b95~0bcd~0b95~0bbf~0baf ~0baa~0bc1~0bb3~0bcd~0bb3~0bbf~0b95~0bb3~0bcd">>
        >>>>,
      <<"ur",
        <<
          <<"This document appears to be a legal contract",
            "~06cc~06c1 ~062f~0633~062a~0627~0648~06cc~0632 ~0627~06cc~06a9 ~0642~0627~0646~0648~0646~06cc ~0645~0639~0627~06c1~062f~06c1 ~0645~0639~0644~0648~0645 ~06c1~0648~062a~06cc ~06c1~06d2">>,
          <<"Contains standard contract clauses",
            "~0645~0639~06cc~0627~0631~06cc ~0645~0639~0627~06c1~062f~06c1 ~0634~0642~06cc~06ba ~0634~0627~0645~0644 ~06c1~06cc~06ba">>,
          <<"The agreement is valid for one year",
            "~06cc~06c1 ~0645~0639~0627~06c1~062f~06c1 ~0627~06cc~06a9 ~0633~0627~0644 ~06a9~06d2 ~0644~06cc~06d2 ~062f~0631~0633~062a ~06c1~06d2">>,
          <<"Requires signature of both parties",
            "~062f~0648~0646~0648~06ba ~0641~0631~06cc~0642~0648~06ba ~06a9~06d2 ~062f~0633~062a~062e~0637 ~062f~0631~06a9~0627~0631 ~06c1~06cc~06ba">>,
          <<"Legal document",
            "~0642~0627~0646~0648~0646~06cc ~062f~0633~062a~0627~0648~06cc~0632">>,
          <<"Contract",
            "~0645~0639~0627~06c1~062f~06c1">>,
          <<"Summary",
            "~062e~0644~0627~0635~06c1">>,
          <<"Key points",
            "~0627~06c1~0645 ~0646~06a9~0627~062a">>
        >>>>,
      <<"gu",
        <<
          <<"This document appears to be a legal contract",
            "~0a86 ~0aa6~0ab8~0acd~0aa4~0abe~0ab5~0ac7~0a9c ~0a95~0abe~0aa8~0ac2~0aa8~0ac0 ~0a95~0ab0~0abe~0ab0 ~0a9c~0ac7~0ab5~0acb ~0ab2~0abe~0a97~0ac7 ~0a9b~0ac7">>,
          <<"Contains standard contract clauses",
            "~0aaa~0acd~0ab0~0aae~0abe~0aa3~0aad~0ac2~0aa4 ~0a95~0ab0~0abe~0ab0 ~0a95~0ab2~0aae~0acb ~0aa7~0ab0~0abe~0ab5~0ac7 ~0a9b~0ac7">>,
          <<"The agreement is valid for one year",
            "~0a95~0ab0~0abe~0ab0 ~0a8f~0a95 ~0ab5~0ab0~0acd~0ab7 ~0aae~0abe~0a9f~0ac7 ~0aae~0abe~0aa8~0acd~0aaf ~0a9b~0ac7">>,
          <<"Requires signature of both parties",
            "~0aac~0a82~0aa8~0ac7 ~0aaa~0a95~0acd~0ab7~0acb~0aa8~0ac0 ~0ab8~0ab9~0ac0~0aa8~0ac0 ~0a9c~0ab0~0ac2~0ab0 ~0a9b~0ac7">>,
          <<"Legal document",
            "~0a95~0abe~0aa8~0ac2~0aa8~0ac0 ~0aa6~0ab8~0acd~0aa4~0abe~0ab5~0ac7~0a9c">>,
          <<"Contract",
            "~0a95~0ab0~0abe~0ab0">>,
          <<"Summary",
            "~0ab8~0abe~0ab0~0abe~0a82~0ab6">>,
          <<"Key points",
            "~0aae~0ac1~0a96~0acd~0aaf ~0aae~0ac1~0aa6~0acd~0aa6~0abe~0a93">>
        >>>>,
      <<"kn",
        <<
          <<"This document appears to be a legal contract",
            "~0c88 ~0ca6~0cbe~0c96~0cb2~0cc6 ~0c95~0cbe~0ca8~0cc2~0ca8~0cc1 ~0c92~0caa~0ccd~0caa~0c82~0ca6~0cb5~0cbe~0c97~0cbf ~0c95~0cbe~0ca3~0cc1~0ca4~0ccd~0ca4~0ca6~0cc6">>,
          <<"Contains standard contract clauses",
            "~0caa~0ccd~0cb0~0cae~0cbe~0ca3~0cbf~0ca4 ~0c92~0caa~0ccd~0caa~0c82~0ca6 ~0cb7~0cb0~0ca4~0ccd~0ca4~0cc1~0c97~0cb3~0ca8~0ccd~0ca8~0cc1 ~0c92~0cb3~0c97~0cca~0c82~0ca1~0cbf~0ca6~0cc6">>,
          <<"The agreement is valid for one year",
            "~0c92~0caa~0ccd~0caa~0c82~0ca6~0cb5~0cc1 ~0c92~0c82~0ca6~0cc1 ~0cb5~0cb0~0ccd~0cb7~0ca6~0cb5~0cb0~0cc6~0c97~0cc6 ~0cae~0cbe~0ca8~0ccd~0caf~0cb5~0cbe~0c97~0cbf~0ca6~0cc6">>,
          <<"Requires signature of both parties",
            "~0c8e~0cb0~0ca1~0cc2 ~0caa~0c95~0ccd~0cb7~0c97~0cb3 ~0cb8~0cb9~0cbf ~0c85~0c97~0ca4~0ccd~0caf~0cb5~0cbf~0ca6~0cc6">>,
          <<"Legal document",
            "~0c95~0cbe~0ca8~0cc2~0ca8~0cc1 ~0ca6~0cbe~0c96~0cb2~0cc6">>,
          <<"Contract",
            "~0c92~0caa~0ccd~0caa~0c82~0ca6">>,
          <<"Summary",
            "~0cb8~0cbe~0cb0~0cbe~0c82~0cb6">>,
          <<"Key points",
            "~0caa~0ccd~0cb0~0cae~0cc1~0c96 ~0c85~0c82~0cb6~0c97~0cb3~0cc1">>
        >>>>,
      <<"ml",
        <<
          <<"This document appears to be a legal contract",
            "~0d08 ~0d30~0d47~0d16 ~0d12~0d30~0d41 ~0d28~0d3f~0d2f~0d2e~0d2a~0d30~0d2e~0d3e~0d2f ~0d15~0d30~0d3e~0d31~0d3e~0d2f~0d3f ~0d24~0d4b~0d28~0d4d~0d28~0d41~0d28~0d4d~0d28~0d41">>,
          <<"Contains standard contract clauses",
            "~0d38~0d4d~0d31~0d4d~0d31~0d3e~0d7b~0d21~0d47~0d7c~0d21~0d4d ~0d15~0d30~0d3e~0d7c ~0d35~0d4d~0d2f~0d35~0d38~0d4d~0d25~0d15~0d7e ~0d05~0d1f~0d19~0d4d~0d19~0d3f~0d2f~0d3f~0d30~0d3f~0d15~0d4d~0d15~0d41~0d28~0d4d~0d28~0d41">>,
          <<"The agreement is valid for one year",
            "~0d15~0d30~0d3e~0d7c ~0d12~0d30~0d41 ~0d35~0d7c~0d37~0d24~0d4d~0d24~0d47~0d15~0d4d~0d15~0d4d ~0d38~0d3e~0d27~0d41~0d35~0d3e~0d23~0d4d">>,
          <<"Requires signature of both parties",
            "~0d07~0d30~0d41 ~0d15~0d15~0d4d~0d37~0d3f~0d15~0d33~0d41~0d1f~0d46~0d2f~0d41~0d02 ~0d12~0d2a~0d4d~0d2a~0d4d ~0d06~0d35~0d36~0d4d~0d2f~0d2e~0d3e~0d23~0d4d">>,
          <<"Legal document",
            "~0d28~0d3f~0d2f~0d2e~0d2a~0d30~0d2e~0d3e~0d2f ~0d30~0d47~0d16">>,
          <<"Contract",
            "~0d15~0d30~0d3e~0d7c">>,
          <<"Summary",
            "~0d38~0d02~0d17~0d4d~0d30~0d39~0d02">>,
          <<"Key points",
            "~0d2a~0d4d~0d30~0d27~0d3e~0d28 ~0d2a~0d4b~0d2f~0d3f~0d28~0d4d~0d31~0d41~0d15~0d7e">>,
          <<"Indian Contract Act, 1872",
            "~0d07~0d28~0d4d~0d24~0d4d~0d2f~0d7b ~0d15~0d30~0d3e~0d7c ~0d28~0d3f~0d2f~0d2e~0d02, 1872">>,
          <<"Foreign Exchange Management Act, 1999",
            "~0d35~0d3f~0d26~0d47~0d36 ~0d28~0d3e~0d23~0d2f ~0d28~0d3f~0d2f~0d28~0d4d~0d24~0d4d~0d30~0d23 ~0d28~0d3f~0d2f~0d2e~0d02, 1999">>,
          <<"Specific Relief Act, 1963",
            "~0d2a~0d4d~0d30~0d24~0d4d~0d2f~0d47~0d15 ~0d06~0d36~0d4d~0d35~0d3e~0d38 ~0d28~0d3f~0d2f~0d2e~0d02, 1963">>
        >>>>,
      <<"or",
        <<
          <<"This document appears to be a legal contract",
            "~0b0f~0b39~0b3f ~0b26~0b32~0b3f~0b32~0b1f~0b3f ~0b0f~0b15 ~0b06~0b07~0b28~0b17~0b24 ~0b1a~0b41~0b15~0b4d~0b24~0b3f~0b28~0b3e~0b2e~0b3e ~0b2d~0b33~0b3f ~0b32~0b3e~0b17~0b41~0b1b~0b3f">>,
          <<"Contains standard contract clauses",
            "~0b2e~0b3e~0b28~0b15 ~0b1a~0b41~0b15~0b4d~0b24~0b3f ~0b27~0b3e~0b30~0b3e ~0b27~0b3e~0b30~0b23 ~0b15~0b30~0b47">>,
          <<"The agreement is valid for one year",
            "~0b1a~0b41~0b15~0b4d~0b24~0b3f~0b28~0b3e~0b2e~0b3e ~0b0f~0b15 ~0b2c~0b30~0b4d~0b37 ~0b2a~0b3e~0b07~0b01 ~0b2c~0b48~0b27">>,
          <<"Requires signature of both parties",
            "~0b09~0b2d~0b5f ~0b2a~0b15~0b4d~0b37~0b19~0b4d~0b15 ~0b26~0b38~0b4d~0b24~0b16~0b24 ~0b06~0b2c~0b36~0b4d~0b5f~0b15">>,
          <<"Legal document",
            "~0b06~0b07~0b28~0b17~0b24 ~0b26~0b32~0b3f~0b32">>,
          <<"Contract",
            "~0b1a~0b41~0b15~0b4d~0b24~0b3f~0b28~0b3e~0b2e~0b3e">>,
          <<"Summary",
            "~0b38~0b3e~0b30~0b3e~0b02~0b36">>,
          <<"Key points",
            "~0b2e~0b41~0b16~0b4d~0b5f ~0b2c~0b3f~0b28~0b4d~0b26~0b41~0b17~0b41~0b21~0b3f~0b15">>
        >>>>,
      <<"pa",
        <<
          <<"This document appears to be a legal contract",
            "~0a07~0a39 ~0a26~0a38~0a24~0a3e~0a35~0a47~0a1c~0a3c ~0a07~0a71~0a15 ~0a15~0a3e~0a28~0a42~0a70~0a28~0a40 ~0a07~0a15~0a30~0a3e~0a30~0a28~0a3e~0a2e~0a3e ~0a1c~0a3e~0a2a~0a26~0a3e ~0a39~0a48">>,
          <<"Contains standard contract clauses",
            "~0a2e~0a3f~0a06~0a30~0a40 ~0a07~0a15~0a30~0a3e~0a30~0a28~0a3e~0a2e~0a47 ~0a26~0a40~0a06~0a02 ~0a27~0a3e~0a30~0a3e~0a35~0a3e~0a02 ~0a38~0a3c~0a3e~0a2e~0a32 ~0a39~0a28">>,
          <<"The agreement is valid for one year",
            "~0a38~0a2e~0a1d~0a4c~0a24~0a3e ~0a07~0a71~0a15 ~0a38~0a3e~0a32 ~0a32~0a08 ~0a35~0a48~0a27 ~0a39~0a48">>,
          <<"Requires signature of both parties",
            "~0a26~0a4b~0a28~0a4b~0a02 ~0a27~0a3f~0a30~0a3e~0a02 ~0a26~0a47 ~0a26~0a38~0a24~0a16~0a24~0a3e~0a02 ~0a26~0a40 ~0a32~0a4b~0a5c ~0a39~0a48">>,
          <<"Legal document",
            "~0a15~0a3e~0a28~0a42~0a70~0a28~0a40 ~0a26~0a38~0a24~0a3e~0a35~0a47~0a1c~0a3c">>,
          <<"Contract",
            "~0a07~0a15~0a30~0a3e~0a30~0a28~0a3e~0a2e~0a3e">>,
          <<"Summary",
            "~0a38~0a3e~0a30">>,
          <<"Key points",
            "~0a2e~0a41~0a71~0a16 ~0a2c~0a3f~0a70~0a26~0a42">>
        >>>>,
      <<"as",
        <<
          <<"This document appears to be a legal contract",
            "~098f~0987 ~09a8~09a5~09bf~0996~09a8 ~098f~099f~09be ~0986~0987~09a8~09c0 ~099a~09c1~0995~09cd~09a4~09bf ~09af~09c7~09a8 ~09b2~09be~0997~09c7">>,
          <<"Contains standard contract clauses",
            "~09ae~09be~09a8~0995 ~099a~09c1~0995~09cd~09a4~09bf~09f0 ~09a7~09be~09b0~09be ~0985~09a8~09cd~09a4~09b0~09cd~09ad~09c1~0995~09cd~09a4 ~0995~09f0~09c7">>,
          <<"The agreement is valid for one year",
            "~099a~09c1~0995~09cd~09a4~09bf~0996~09a8 ~098f~09ac~099b~09f0~09f0 ~09ac~09be~09ac~09c7 ~09ac~09c8~09a7">>,
          <<"Requires signature of both parties",
            "~09a6~09c1~09af~09bc~09cb~09aa~0995~09cd~09b7~09f0 ~09b8~09cd~09ac~09be~0995~09cd~09b7~09f0~0995 ~09aa~09cd~09f0~09af~09bc~09cb~099c~09a8">>,
          <<"Legal document",
            "~0986~0987~09a8~09c0 ~09a8~09a5~09bf">>,
          <<"Contract",
            "~099a~09c1~0995~09cd~09a4~09bf">>,
          <<"Summary",
            "~09b8~09be~09b0~09b8~0982~0995~09cd~09b7~09c7~09aa">>,
          <<"Key points",
            "~09ae~09c2~09b2 ~09ac~09bf~09b7~09af~09bc~0997~09c1~09b2~09bf">>
        >>>>,
      <<"mai",
        <<
          <<"This document appears to be a legal contract",
            "~0908 ~0926~0938~094d~0924~093e~0935~0947~091c ~090f~0915~091f~093e ~0915~093e~0928~0942~0928~0940 ~0905~0928~0941~092c~0902~0927 ~092a~094d~0930~0924~0940~0924 ~0939~094b~0907~0924 ~0905~091b~093f">>,
          <<"Contains standard contract clauses",
            "~092e~093e~0928~0915 ~0905~0928~0941~092c~0902~0927 ~0916~0902~0921 ~0938~092d ~0938~092e~093e~0935~093f~0937~094d~091f ~0905~091b~093f">>,
          <<"The agreement is valid for one year",
            "~0908 ~0938~092e~091d~094c~0924~093e ~090f~0915 ~0935~0930~094d~0937 ~0932~0947~0932 ~092e~093e~0928~094d~092f ~0905~091b~093f">>,
          <<"Requires signature of both parties",
            "~0926~0941~0928~0942 ~092a~0915~094d~0937~0915 ~0939~0938~094d~0924~093e~0915~094d~0937~0930~0915 ~0906~0935~0936~094d~092f~0915~0924~093e ~0905~091b~093f">>,
          <<"Legal document",
            "~0915~093e~0928~0942~0928~0940 ~0926~0938~094d~0924~093e~0935~0947~091c">>,
          <<"Contract",
            "~0905~0928~0941~092c~0902~0927">>,
          <<"Summary",
            "~0938~093e~0930~093e~0902~0936">>,
          <<"Key points",
            "~092e~0941~0916~094d~092f ~092c~093f~0902~0926~0941">>
        >>>>,
      <<"sa",
        <<
          <<"This document appears to be a legal contract",
            "~090f~0937~0903 ~092a~0924~094d~0930~0902 ~0935~093f~0927~093f~0915 ~0938~0902~0935~093f~0926~093e ~0907~0935 ~092a~094d~0930~0924~093f~092d~093e~0924~093f">>,
          <<"Contains standard contract clauses",
            "~092e~093e~0928~0915 ~0938~0902~0935~093f~0926~093e ~0916~0923~094d~0921~093e~0928~093f ~0905~0928~094d~0924~0930~094d~092d~0935~0924~093f">>,
          <<"The agreement is valid for one year",
            "~0938~0902~0935~093f~0926~093e ~090f~0915~0938~094d~092f ~0935~0930~094d~0937~0938~094d~092f ~0915~0943~0924~0947 ~092e~093e~0928~094d~092f~093e ~0905~0938~094d~0924~093f">>,
          <<"Requires signature of both parties",
            "~0909~092d~092f~094b~0903 ~092a~0915~094d~0937~092f~094b~0903 ~0939~0938~094d~0924~093e~0915~094d~0937~0930~0938~094d~092f ~0906~0935~0936~094d~092f~0915~0924~093e ~0905~0938~094d~0924~093f">>,
          <<"Legal document",
            "~0935~093f~0927~093f~0915 ~092a~0924~094d~0930~092e~094d">>,
          <<"Contract",
            "~0938~0902~0935~093f~0926~093e">>,
          <<"Summary",
            "~0938~093e~0930~093e~0902~0936~0903">>,
          <<"Key points",
            "~092e~0941~0916~094d~092f~093e~0903 ~092c~093f~0928~094d~0926~0935~0903">>
        >>>>,
      <<"ks",
        <<
          <<"This document appears to be a legal contract",
            "~06cc~06c1 ~062f~0633~062a~0627~0648~06cc~0632 ~0627~06cc~06a9 ~0642~0627~0646~0648~0646~06cc ~0645~0639~0627~06c1~062f~06c1 ~0645~0639~0644~0648~0645 ~06c1~0648~062a~0627 ~06c1~06d2">>,
          <<"Contains standard contract clauses",
            "~0645~0639~06cc~0627~0631~06cc ~0645~0639~0627~06c1~062f~06c1 ~0634~0642~06cc~06ba ~0634~0627~0645~0644 ~06c1~06cc~06ba">>,
          <<"The agreement is valid for one year",
            "~06cc~06c1 ~0645~0639~0627~06c1~062f~06c1 ~0627~06cc~06a9 ~0633~0627~0644 ~06a9~06d2 ~0644~06cc~06d2 ~062f~0631~0633~062a ~0686~06be~064f">>,
          <<"Requires signature of both parties",
            "~062f~0648~0646~0648~06ba ~0641~0631~06cc~0642~0648~06ba ~06a9~06d2 ~062f~0633~062a~062e~0637 ~0636~0631~0648~0631~06cc ~0686~06be~0650">>,
          <<"Legal document",
            "~0642~0627~0646~0648~0646~06cc ~062f~0633~062a~0627~0648~06cc~0632">>,
          <<"Contract",
            "~0645~0639~0627~06c1~062f~06c1">>,
          <<"Summary",
            "~062e~0644~0627~0635~06c1">>,
          <<"Key points",
            "~0627~06c1~0645 ~0646~06a9~0627~062a">>
        >>>>,
      <<"ne",
        <<
          <<"This document appears to be a legal contract",
            "~092f~094b ~0915~093e~0917~091c~093e~0924 ~0915~093e~0928~0942~0928~0940 ~0938~092e~094d~091d~094c~0924~093e ~091c~0938~094d~0924~094b ~0926~0947~0916~093f~0928~094d~091b">>,
          <<"Contains standard contract clauses",
            "~092e~093e~0928~0915 ~0938~092e~094d~091d~094c~0924~093e ~0916~0923~094d~0921~0939~0930~0942 ~0938~092e~093e~0935~0947~0936 ~091b~0928~094d">>,
          <<"The agreement is valid for one year",
            "~0938~092e~094d~091d~094c~0924~093e ~090f~0915 ~0935~0930~094d~0937~0915~094b ~0932~093e~0917~093f ~092e~093e~0928~094d~092f ~091b">>,
          <<"Requires signature of both parties",
            "~0926~0941~0935~0948 ~092a~0915~094d~0937~0915~094b ~0939~0938~094d~0924~093e~0915~094d~0937~0930 ~0906~0935~0936~094d~092f~0915 ~091b">>,
          <<"Legal document",
            "~0915~093e~0928~0942~0928~0940 ~0915~093e~0917~091c~093e~0924">>,
          <<"Contract",
            "~0938~092e~094d~091d~094c~0924~093e">>,
          <<"Summary",
            "~0938~093e~0930~093e~0902~0936">>,
          <<"Key points",
            "~092e~0941~0916~094d~092f ~092c~0941~0901~0926~093e~0939~0930~0942">>
        >>>>,
      <<"sd",
        <<
          <<"This document appears to be a legal contract",
            "~0647~064a ~062f~0633~062a~0627~0648~064a~0632 ~0647~06aa ~0642~0627~0646~0648~0646~064a ~0645~0639~0627~0647~062f~064a ~062c~064a~0627~0646 ~0644~06b3~064a ~067f~0648">>,
          <<"Contains standard contract clauses",
            "~0645~0639~064a~0627~0631~064a ~0645~0639~0627~0647~062f~06c1 ~0634~0642~0648~0646 ~0634~0627~0645~0644 ~0622~0647~0646">>,
          <<"The agreement is valid for one year",
            "~0645~0639~0627~0647~062f~0648 ~0647~06aa ~0633~0627~0644 ~0644~0627~0621~0650 ~062f~0631~0633~062a ~0622~0647~064a">>,
          <<"Requires signature of both parties",
            "~067b~0646~0647~064a ~068c~0631~064a~0646 ~062c~064a ~0635~062d~064a~062d ~062c~064a ~0636~0631~0648~0631~062a ~0622~0647~064a">>,
          <<"Legal document",
            "~0642~0627~0646~0648~0646~064a ~062f~0633~062a~0627~0648~064a~0632">>,
          <<"Contract",
            "~0645~0639~0627~0647~062f~0648">>,
          <<"Summary",
            "~062e~0644~0627~0635~0648">>,
          <<"Key points",
            "~0627~0647~0645 ~0646~06aa~062a~0627">>
        >>>>,
      <<"kok",
        <<
          <<"This document appears to be a legal contract",
            "~0939~0947~0902 ~0926~0938~094d~0924~093e~0935~0947~091c ~0915~093e~092f~0926~0947~0936~0940~0930 ~0915~0930~093e~0930 ~091c~093e~0935~0928 ~0926~093f~0938~0924~093e">>,
          <<"Contains standard contract clauses",
            "~092e~093e~0928~0915 ~0915~0930~093e~0930 ~0915~0932~092e~093e~0902 ~0906~0938~093e~0924">>,
          <<"The agreement is valid for one year",
            "~0915~0930~093e~0930 ~090f~0915~093e ~0935~0930~094d~0938~093e~0916~093e~0924~0940~0930 ~0935~0948~0927 ~0906~0938~093e">>,
          <<"Requires signature of both parties",
            "~0926~094b~0928~0942~092f ~092a~0915~094d~0937~093e~0902~091a~094d~092f~093e ~0938~0939~094d~092f~093e~0902~091a~0940 ~0917~0930~091c ~0906~0938~093e">>,
          <<"Legal document",
            "~0915~093e~092f~0926~0947~0936~0940~0930 ~0926~0938~094d~0924~093e~0935~0947~091c">>,
          <<"Contract",
            "~0915~0930~093e~0930">>,
          <<"Summary",
            "~0938~093e~0930~093e~0902~0936">>,
          <<"Key points",
            "~092e~0941~0916~0947~0932 ~092e~0941~0926~094d~0926~0947">>
        >>>>,
      <<"doi",
        <<
          <<"This document appears to be a legal contract",
            "~090f~0939 ~0926~0938~094d~0924~093e~0935~0947~091c ~0915~093e~0928~0942~0928~0940 ~0907~0915~0930~093e~0930~0928~093e~092e~093e ~0932~0917~0926~093e ~0910">>,
          <<"Contains standard contract clauses",
            "~092e~093e~0928~0915 ~0907~0915~0930~093e~0930~0928~093e~092e~0947 ~0926~093f~092f~093e~0902 ~0927~093e~0930~093e~090f~0902 ~0a38~0a3c~0a3e~0a2e~0a32 ~0a28">>,
          <<"The agreement is valid for one year",
            "~0907~0915~0930~093e~0930~0928~093e~092e~093e ~0907~0915 ~0938~093e~0932 ~0924~0915~0930 ~092e~093e~0928~094d~092f ~0910">>,
          <<"Requires signature of both parties",
            "~0926~094b~0928~0947~0902 ~0927~093f~0930~0947~0902 ~0926~0947 ~0926~0938~094d~0924~0916~0924~0947~0902 ~0926~0940 ~0932~094b~0921~093c ~0910">>,
          <<"Legal document",
            "~0a15~0a3e~0a28~0a42~0a28~0a40 ~0a26~0a38~0a24~0a3e~0a35~0a47~0a1c~0a3c">>,
          <<"Contract",
            "~0a07~0a15~0a30~0a3e~0a30~0a28~0a3e~0a2e~0a3e">>,
          <<"Summary",
            "~0a38~0a3e~0a30">>,
          <<"Key points",
            "~092e~0941~0916~094d~092f ~092c~093f~0902~0926~0941">>
        >>>>,
      <<"mni",
        <<
          <<"This document appears to be a legal contract",
            "~098f~0987 ~09a6~09b2~09c0~09b2 ~0986~0987~09a8~0997~09c0 ~099a~09cc~0995~09cd~09a4~09be~0995~09cd~09a8~09ac~09be ~0985~09ae~09be ~0993~0987~09b0~09ae~0997~09a6~09b0~09be ~09b9~09be~09af~09bc~09a8~09be ~0989~0987">>,
          <<"Contains standard contract clauses",
            "~09b8~09cd~09a4~09be~09a8~09cd~09a6~09b0~09cd~09a6 ~099a~09cc~0995~09cd~09a4~09be~0995~09cd~09a8~09ac~0997~09c0 ~09f1~09be~09b0~09cb~09b2 ~09af~09bc~09be~0993~0987">>,
          <<"The agreement is valid for one year",
            "~099a~09cc~0995~09cd~09a4~09be~0995~09cd~09a8~09ac~09be ~0985~09b8~09bf ~099a~09b9~09bf ~0985~09ae~0997~09c0 ~09a6~09ae~0995 ~099a~09ce~09a8~0997~09a8~09bf">>,
          <<"Requires signature of both parties",
            "~09ae~09c0~0993~0987 ~0985~09a8~09bf~09ae~0995~0995~09cd~0995~09c0 ~0996~09c1~09ce~09af~09bc~09c7~0995 ~09ae~09a5~09cc ~09a4~09be~0987">>,
          <<"Legal document",
            "~0986~0987~09a8~0997~09c0 ~09a6~09b2~09c0~09b2">>,
          <<"Contract",
            "~099a~09cc~0995~09cd~09a4~09be~0995~09cd~09a8~09ac~09be">>,
          <<"Summary",
            "~09a8~09bf~0982~09a5~09cc~09b0~09cb~09b2">>,
          <<"Key points",
            "~09ae~09b0~09c1 ~0993~0987~09ac~09be ~09f1~09be~09ab~09ae">>
        >>>>,
      <<"bo",
        <<
          <<"This document appears to be a legal contract",
            "~0f61~0f72~0f42~0f0b~0f46~0f0b~0f60~0f51~0f72~0f0b~0f41~0fb2~0f72~0f58~0f66~0f0b~0f58~0f50~0f74~0f53~0f0b~0f42~0fb1~0f72~0f0b~0f42~0f53~0f0b~0f62~0f92~0fb1~0f0b~0f5e~0f72~0f42~0f0b~0f60~0f51~0f72~0f0b~0f41~0fb2~0f72~0f58~0f66~0f0b~0f58~0f50~0f74~0f53~0f0b~0f42~0fb1~0f72~0f0b~0f60~0f51~0f74~0f42">>,
          <<"Contains standard contract clauses",
            "~0f5a~0f51~0f0b~0f63~0fa1~0f53~0f0b~0f42~0f53~0f0b~0f62~0f92~0fb1~0f60~0f72~0f0b~0f5a~0f53~0f0b~0f54~0f0b~0f41~0f42~0f0b~0f5a~0f74~0f51~0f0b~0f61~0f7c~0f51~0f0d">>,
          <<"The agreement is valid for one year",
            "~0f42~0f53~0f0b~0f62~0f92~0fb1~0f0b~0f60~0f51~0f72~0f0b~0f63~0f7c~0f0b~0f42~0f45~0f72~0f42~0f0b~0f42~0f72~0f0b~0f62~0f72~0f44~0f0b~0f63~0f0b~0f46~0f0b~0f60~0f47~0f7c~0f42~0f0b~0f61~0f72~0f53~0f0d">>,
          <<"Requires signature of both parties",
            "~0f55~0fb1~0f7c~0f42~0f66~0f0b~0f42~0f49~0f72~0f66~0f0b~0f40~0f60~0f72~0f0b~0f58~0f72~0f44~0f0b~0f62~0f9f~0f42~0f66~0f0b~0f51~0f42~0f7c~0f66~0f0b~0f44~0f7a~0f66~0f0b~0f61~0f72~0f53~0f0d">>,
          <<"Legal document",
            "~0f41~0fb2~0f72~0f58~0f66~0f0b~0f58~0f50~0f74~0f53~0f0b~0f61~0f72~0f42~0f0b~0f46~0f0d">>,
          <<"Contract",
            "~0f42~0f53~0f0b~0f62~0f92~0fb1~0f0d">>,
          <<"Summary",
            "~0f66~0f99~0f72~0f44~0f0b~0f56~0f66~0fa1~0f74~0f66~0f0d">>,
          <<"Key points",
            "~0f42~0f53~0f51~0f0b~0f51~0f7c~0f53~0f0b~0f42~0f59~0f7c~0f0b~0f56~0f7c~0f0d">>
        >>>>,
      <<"sat",
        <<
          <<"This document appears to be a legal contract",
            "~1c71~1c5a~1c76~1c5f ~1c60~1c5f~1c5c~1c5a~1c61 ~1c6b~16a2 ~1c62~1c64~1c6b ~1c5f~1c6d~1c64~1c71 ~1c5c~1c5f~1c71~1c5b~1c5f~1c60 ~1c60~1c5f~1c71~1c5f ~1c62~1c6e~1c71~1c5b~1c6e ~1c67~1c6e~1c5e~1c5a~1c5c-~1c5f">>,
          <<"Contains standard contract clauses",
            "~1c62~1c5f~1c71~1c5a~1c60 ~1c5c~1c5f~1c71~1c5b~1c5f~1c60 ~1c60~1c6e~1c5e~1c5f~1c63~1c65 ~1c60~169a ~1c62~1c6e~1c71~1c5f~1c5c-~1c5f">>,
          <<"The agreement is valid for one year",
            "~1c5c~1c5f~1c71~1c5b~1c5f~1c60 ~1c6b~16a2 ~1c62~1c64~1c6b ~1c65~1c6e~1c68~1c62~1c5f ~1c5e~1c5f~1c79~1c5c~1c64~1c6b ~1c62~1c5f~1c71~1c5f~1c63 ~1c62~1c5f~1c71~1c5f~1c63 ~1c5c~1c6e~1c6d~1c5f">>,
          <<"Requires signature of both parties",
            "~1c75~1c5f~1c71~1c5f~1c68 ~1c6f~1c5f~1c66~1c74~1c5f ~1c68~1c6e~1c71 ~1c60~1c5a~1c63~1c5f~1c5c ~1c65~1c69~1c66~1c64 ~1c5e~1c5f~1c79~1c60~1c5b~1c64~1c6d~1c5f">>,
          <<"Legal document",
            "~1c5f~1c6d~1c64~1c71 ~1c60~1c5f~1c5c~1c5a~1c61">>,
          <<"Contract",
            "~1c5c~1c5f~1c71~1c5b~1c5f~1c60">>,
          <<"Summary",
            "~1c5c~1c5f~1c75~1c5f~1c71">>,
          <<"Key points",
            "~1c62~1c69~1c6c~1c69~1c5b ~1c74~1c77~1c6e~1c71 ~1c60~169a">>
        >>>>
    >>

(***************************************************************************)
(* handle_translation_request                                              *)
(***************************************************************************)
\* the outcomes of AutoTokenizer.from_pretrained and of
\* AutoModelForSeq2SeqLM.from_pretrained in one call of
\* _load_translation_model: the first raises, the second raises, none does
LoadOutcomes == {"tokenizer_error", "model_error", "loaded"}

Handle(result, model, tokenizer, loads) ==
    [result |-> result, translation_model |-> model, translation_tokenizer |-> tokenizer,
     model_loads |-> loads]

\* _load_translation_model without the test of self.translation_model
LoadEveryTime(outcome) ==
    IF ~transformers
    THEN Handle(FALSE, translation_model, translation_tokenizer, model_loads)
    ELSE CASE outcome = "tokenizer_error" ->
                Handle(FALSE, translation_model, translation_tokenizer, model_loads)
           [] outcome = "model_error" ->
                Handle(FALSE, translation_model, "loaded", model_loads)
           [] OTHER -> Handle(TRUE, "loaded", "loaded", model_loads + 1)
\* _load_translation_model: what it returns and the handles after it
_load_translation_model(outcome) ==
    IF ~transformers
    THEN Handle(FALSE, translation_model, translation_tokenizer, model_loads)
    ELSE IF translation_model # "None"
    THEN Handle(TRUE, translation_model, translation_tokenizer, model_loads)
    ELSE CASE outcome = "tokenizer_error" ->
                Handle(FALSE, "None", translation_tokenizer, model_loads)
           [] outcome = "model_error" ->
                Handle(FALSE, "None", "loaded", model_loads)
           [] OTHER -> Handle(TRUE, "loaded", "loaded", model_loads + 1)

\* the outcomes of tokenizing, generating and decoding: an exception, or the
\* decoded string, one of each kind the code tells apart: the empty string,
\* a string that starts with "[Translation", another string
GenerateOutcomes(text, target_lang) ==
    {[raised |-> TRUE, decoded |-> ""],
     [raised |-> FALSE, decoded |-> ""],
     [raised |-> FALSE, decoded |-> "[Translation] " \o text],
     [raised |-> FALSE, decoded |-> target_lang \o ": " \o text]}

\* the try block of the model: translated_text after it
ModelTranslation(text, target_lang, generated) ==
    IF ~HasKey(language_code_map, target_lang) THEN ""
    ELSE IF generated.raised THEN ""
    ELSE generated.decoded

ContractMarker == "This document appears to be a legal contract"

AnalysisMarker == "Here's a detailed analysis"

\* the replacement of the known phrases where it comes before the test of
\* an exact match
SubstitutionFirst(text, phrases) ==
    LET temp_text == ReplaceEach(text, phrases, 1)
    IN IF temp_text # text THEN temp_text
       ELSE IF HasKey(phrases, text) THEN Get(phrases, text) ELSE ""
\* the else branch of the fallback: the exact match, else the replacement
\* of the known phrases if it changes the text, else nothing
BasicPhraseReplacement(text, phrases) ==
    IF HasKey(phrases, text) THEN Get(phrases, text)
    ELSE LET temp_text == ReplaceEach(text, phrases, 1)
         IN IF temp_text # text THEN temp_text ELSE ""

\* the branch of a contract analysis: the sample phrases, then the section
\* phrases of the language if it has some
ContractAnalysisReplacement(text, target_lang) ==
    LET basic == ReplaceEach(text, Get(sample_phrases, target_lang), 1)
    IN IF HasKey(analysis_translations, target_lang)
       THEN ReplaceEach(basic, Get(analysis_translations, target_lang), 1)
       ELSE basic

\* the dictionary approach: translated_text after it
DictionaryFallback(text, target_lang) ==
    IF ~HasKey(sample_phrases, target_lang) THEN ""
    ELSE IF Contains(text, ContractMarker) /\ Contains(text, AnalysisMarker)
    THEN ContractAnalysisReplacement(text, target_lang)
    ELSE BasicPhraseReplacement(text, Get(sample_phrases, target_lang))

Placeholder ==
    "[Translation using open-source LLM failed. Please install transformers library with 'pip install transformers sentencepiece' and ensure you have enough memory.]"

\* the cache is saved when its length is a multiple of this
SaveEvery == 10

CacheKey(text, target_lang) == text \o "_" \o target_lang

TranslatedAudioPath(target_lang, now) ==
    "temp/translated_" \o target_lang \o "_" \o Timestamp(now) \o ".wav"

\* open(audio_path, "wb") creates the file when its directory exists; temp/
\* has no directory below it
CanCreate(audio_path) == ~Contains(SubSeq(audio_path, Len("temp/") + 1, Len(audio_path)), "/")

\* the steps of the call, in their order
StepsOf(hit, loaded, generates, falls_back, inserts, saves, placeholder, written) ==
    (IF hit THEN <<"cache_hit">> ELSE <<"load_model">>)
    \o (IF loaded THEN <<"model_loaded">> ELSE <<>>)
    \o (IF generates THEN <<"generate">> ELSE <<>>)
    \o (IF falls_back THEN <<"fallback">> ELSE <<>>)
    \o (IF inserts THEN <<"insert">> ELSE <<>>)
    \o (IF saves THEN <<"save">> ELSE <<>>)
    \o (IF placeholder THEN <<"placeholder">> ELSE <<>>)
    \o (IF written THEN <<"audio">> ELSE <<>>)

\* cache_key in self.translation_cache
NeverInCache(cache_key) == FALSE
CacheHit(cache_key) == cache_key \in DOMAIN translation_cache

\* translated_text and not translated_text.startswith("[Translation")
AlwaysCacheable(translated) == TRUE
Cacheable(translated) == translated # "" /\ ~StartsWith(translated, "[Translation")

\* len(self.translation_cache) == 10
SaveAtTenOnly(cache) == Cardinality(DOMAIN cache) = SaveEvery
\* len(self.translation_cache) % 10 == 0
SaveOnEveryInsert(cache) == TRUE
DueForSave(cache) == Cardinality(DOMAIN cache) % SaveEvery = 0

\* handle_translation_request from the try block of the model on, at second
\* now: hit and cached are the outcome of the lookup in the cache, handle
\* that of _load_translation_model, generated that of the generation.  What
\* the call returns or raises, and the assistant and the files after it
TranslationAfterLoad(text, target_lang, now, hit, cached, handle, generated) ==
    LET cache_key == CacheKey(text, target_lang)
        generates == ~hit /\ handle.result /\ HasKey(language_code_map, target_lang)
        from_model == IF ~hit /\ handle.result
                      THEN ModelTranslation(text, target_lang, generated)
                      ELSE ""
        falls_back == ~hit /\ from_model = ""
        translated == IF hit THEN cached
                      ELSE IF falls_back THEN DictionaryFallback(text, target_lang)
                      ELSE from_model
        inserts == ~hit /\ Cacheable(translated)
        cache == IF inserts THEN Put(translation_cache, cache_key, translated)
                 ELSE translation_cache
        saves == inserts /\ DueForSave(cache)
        translated_text == IF translated = "" THEN Placeholder ELSE translated
        audio_path == TranslatedAudioPath(target_lang, now)
        written == CanCreate(audio_path)
    IN [ret |-> IF written
                THEN Returned([translated_text |-> translated_text,
                               source_text |-> text,
                               source_lang |-> "en",
                               target_lang |-> target_lang,
                               audio_response |-> audio_path])
                ELSE Raised("FileNotFoundError"),
        translation_cache |-> cache,
        translation_model |-> handle.translation_model,
        translation_tokenizer |-> handle.translation_tokenizer,
        model_loads |-> handle.model_loads,
        cache_file |-> IF saves THEN _save_translation_cache(cache) ELSE cache_file,
        file_writes |-> IF saves THEN file_writes + 1 ELSE file_writes,
        tempFiles |-> IF written THEN tempFiles \cup {audio_path} ELSE tempFiles,
        steps |-> StepsOf(hit, handle.result /\ handle.model_loads > model_loads, generates,
                          falls_back, inserts, saves, translated = "", written)]

\* handle_translation_request at second now, for an outcome of the loading
\* and one of the generation
handle_translation_request(text, target_lang, now, load_outcome, generated) ==
    LET cache_key == CacheKey(text, target_lang)
        hit == CacheHit(cache_key)
    IN TranslationAfterLoad(text, target_lang, now, hit,
                            IF hit THEN translation_cache[cache_key] ELSE "",
                            IF hit
                            THEN Handle(FALSE, translation_model, translation_tokenizer,
                                        model_loads)
                            ELSE _load_translation_model(load_outcome),
                            generated)

\* the outcomes the libraries can have in a call made now: from_pretrained
\* runs only if the library is there and no model is loaded, the generation
\* only if the library is there
LoadOutcomesNow ==
    IF transformers /\ translation_model = "None" THEN LoadOutcomes ELSE {"loaded"}

GenerateOutcomesNow(text, target_lang) ==
    IF transformers THEN GenerateOutcomes(text, target_lang)
    ELSE {[raised |-> TRUE, decoded |-> ""]}

\* a request for the translation of one of the texts into one of the languages
HandleTranslationRequest(texts, languages) ==
    /\ Idle
    /\ \E text \in texts, target_lang \in languages :
        /\ call' = [NoCall EXCEPT !.op = "handle_translation_request", !.text = text,
                                  !.language = target_lang]
        /\ \E load_outcome \in LoadOutcomesNow,
              generated \in GenerateOutcomesNow(text, target_lang) :
            LET after == handle_translation_request(text, target_lang, clock, load_outcome,
                                                    generated)
            IN /\ ret' = after.ret
               /\ translation_cache' = after.translation_cache
               /\ translation_model' = after.translation_model
               /\ translation_tokenizer' = after.translation_tokenizer
               /\ model_loads' = after.model_loads
               /\ cache_file' = after.cache_file
               /\ file_writes' = after.file_writes
               /\ tempFiles' = after.tempFiles
               /\ steps' = after.steps
    /\ UNCHANGED <<clock, transformers, callers>>

\* the texts of the requests that fill the cache: keys of the phrase tables,
\* a text that holds two of them, and texts that hold none
PhraseTexts ==
    {"Contract", "Summary", "Key points", "Indian Contract Act, 1872", "Contract Summary",
     "zz", ""}

PhraseLanguages == {"hi", "bn"}

TranslatePhrase == HandleTranslationRequest(PhraseTexts, PhraseLanguages)

\* the texts and the languages of the requests made while the library may be
\* there: a language with phrase tables, one the model alone knows, one
\* nothing knows, and one that is no name of a file
ModelTexts == {"Contract", "zz"}

ModelLanguages == {"hi", "en", "fr", "hi/x"}

TranslateWithModel == HandleTranslationRequest(ModelTexts, ModelLanguages)

\* texts whose translations put the encoder of the cache file to work: a
\* plain key of the tables; quotes, a backslash, a newline and a tab; a lone
\* surrogate, which json.loads of a request body yields for \ud800;
\* characters of two and of three bytes and a control character
CacheTexts ==
    {"Contract",
     "\"Contract\"\\\n\t",
     "~d800 Contract",
     "Contract ~00e9~20ac~0000"}

TranslateEntry == HandleTranslationRequest(CacheTexts, {"hi"})

\* a call of _save_translation_cache
SaveTranslationCache ==
    /\ Idle
    /\ file_writes < MaxWrites
    /\ call' = [NoCall EXCEPT !.op = "_save_translation_cache"]
    /\ ret' = Returned(<<>>)
    /\ cache_file' = _save_translation_cache(translation_cache)
    /\ file_writes' = file_writes + 1
    /\ steps' = <<"save">>
    /\ UNCHANGED <<clock, tempFiles, transformers, translation_cache, translation_model,
                   translation_tokenizer, model_loads, callers>>

\* the process starts again: a new assistant is constructed, which loads the
\* cache from the file
Restart ==
    /\ Idle
    /\ call' = [NoCall EXCEPT !.op = "__init__"]
    /\ ret' = Returned(<<>>)
    /\ translation_cache' = _load_translation_cache(cache_file)
    /\ translation_model' = "None"
    /\ translation_tokenizer' = "None"
    /\ model_loads' = 0
    /\ steps' = <<"load_cache">>
    /\ UNCHANGED <<clock, tempFiles, transformers, cache_file, file_writes, callers>>

\* translations and analyses of documents on one assistant: a text the
\* tables translate and one they do not, a language with tables and one
\* without; a document without words and one with entities
FrameTexts == {"Contract", "zz"}

FrameLanguages == {"hi", "fr"}

TranslateFramed == HandleTranslationRequest(FrameTexts, FrameLanguages)

FrameDocuments == {<<>>, <<[line |-> EntityLine, reps |-> 1]>>}

QueryFramed == ProcessLegalQueryOf(FrameDocuments)

\* an assistant that fills its cache entry by entry: the n-th request is for
\* a key of the Hindi phrase table, in Hindi for the first eleven and in
\* Malayalam after them
FillText(n) == Get(sample_phrases, "hi")[((n - 1) % Len(Get(sample_phrases, "hi"))) + 1][1]

FillLanguage(n) == IF n <= Len(Get(sample_phrases, "hi")) THEN "hi" ELSE "ml"

\* the request that follows those already cached, or one of them again, or
\* a text that nothing translates, or one whose translation starts with
\* "[Translation"
TranslateNext ==
    \/ \E n \in 1..MaxFill :
        /\ n <= Cardinality(DOMAIN translation_cache) + 1
        /\ HandleTranslationRequest({FillText(n)}, {FillLanguage(n)})
    \/ HandleTranslationRequest({"zz", "[Translation Contract"}, {"hi"})

\* the keys of the phrase tables of all the languages, and other texts
SampleKeys ==
    UNION {{sample_phrases[l][2][i][1] : i \in 1..Len(sample_phrases[l][2])} :
                l \in 1..Len(sample_phrases)}

SampleLanguages == {sample_phrases[l][1] : l \in 1..Len(sample_phrases)}

\* the first request of an assistant: nothing is cached and temp/ is empty
TranslateFirst ==
    /\ translation_cache = EmptyCache
    /\ tempFiles = {}
    /\ HandleTranslationRequest(SampleKeys \cup {"Contract Summary", "zz"},
                                SampleLanguages \cup {"en", "fr"})

(***************************************************************************)
(* Callers inside handle_translation_request at the same time, on threads  *)
(* of one process.  The code takes no lock, so a thread may be suspended   *)
(* between any two of its statements; a caller goes through the lookup in  *)
(* the cache, the test of the model handle, the load of the tokenizer, the *)
(* load of the model, and the rest of the call.                            *)
(***************************************************************************)
Callers == {"a", "b"}

ConcurrentTexts == {"Contract", "zz"}

ConcurrentLanguages == {"hi"}

Inside(c) == c \in DOMAIN callers

At(c, pc) == Inside(c) /\ callers[c].pc = pc

MovedTo(c, pc) == [callers EXCEPT ![c].pc = pc]

\* the caller enters and looks its key up in the cache
BeginTranslation(c) ==
    /\ ~Inside(c)
    /\ \E text \in ConcurrentTexts, target_lang \in ConcurrentLanguages :
        LET cache_key == CacheKey(text, target_lang)
            hit == CacheHit(cache_key)
        IN callers' = callers @@
                (c :> [pc |-> IF hit THEN "audio" ELSE "load",
                       text |-> text,
                       target_lang |-> target_lang,
                       cached |-> IF hit THEN translation_cache[cache_key] ELSE "",
                       ret |-> Returned(<<>>)])
    /\ UNCHANGED <<call, ret, clock, tempFiles, transformers, translation_cache,
                   translation_model, translation_tokenizer, cache_file, steps, model_loads,
                   file_writes>>

\* _load_translation_model up to the test of self.translation_model
CheckTranslationModel(c) ==
    /\ At(c, "load")
    /\ callers' = MovedTo(c, IF ~transformers THEN "fallback"
                             ELSE IF translation_model # "None" THEN "generate"
                             ELSE "tokenizer")
    /\ UNCHANGED <<call, ret, clock, tempFiles, transformers, translation_cache,
                   translation_model, translation_tokenizer, cache_file, steps, model_loads,
                   file_writes>>

\* AutoTokenizer.from_pretrained returns or raises
LoadTokenizer(c) ==
    /\ At(c, "tokenizer")
    /\ \E loaded \in BOOLEAN :
        /\ translation_tokenizer' = IF loaded THEN "loaded" ELSE translation_tokenizer
        /\ callers' = MovedTo(c, IF loaded THEN "model" ELSE "fallback")
    /\ UNCHANGED <<call, ret, clock, tempFiles, transformers, translation_cache,
                   translation_model, cache_file, steps, model_loads, file_writes>>

\* AutoModelForSeq2SeqLM.from_pretrained returns or raises
LoadModel(c) ==
    /\ At(c, "model")
    /\ \E loaded \in BOOLEAN :
        /\ translation_model' = IF loaded THEN "loaded" ELSE translation_model
        /\ model_loads' = IF loaded THEN model_loads + 1 ELSE model_loads
        /\ callers' = MovedTo(c, IF loaded THEN "generate" ELSE "fallback")
    /\ UNCHANGED <<call, ret, clock, tempFiles, transformers, translation_cache,
                   translation_tokenizer, cache_file, steps, file_writes>>

\* the rest of the call: the translation, the cache, the audio file
FinishTranslation(c) ==
    /\ Inside(c)
    /\ callers[c].pc \in {"audio", "generate", "fallback"}
    /\ \E generated \in IF callers[c].pc = "generate"
                        THEN GenerateOutcomes(callers[c].text, callers[c].target_lang)
                        ELSE {[raised |-> TRUE, decoded |-> ""]} :
        LET after == TranslationAfterLoad(callers[c].text, callers[c].target_lang, clock,
                                          callers[c].pc = "audio", callers[c].cached,
                                          Handle(callers[c].pc = "generate", translation_model,
                                                 translation_tokenizer, model_loads),
                                          generated)
        IN /\ translation_cache' = after.translation_cache
           /\ cache_file' = after.cache_file
           /\ file_writes' = after.file_writes
           /\ tempFiles' = after.tempFiles
           /\ callers' = [callers EXCEPT ![c].pc = "done", ![c].ret = after.ret]
    /\ UNCHANGED <<call, ret, clock, transformers, translation_model, translation_tokenizer,
                   steps, model_loads>>

\* the caller takes the result
Leave(c) ==
    /\ At(c, "done")
    /\ callers' = [d \in DOMAIN callers \ {c} |-> callers[d]]
    /\ UNCHANGED <<call, ret, clock, tempFiles, transformers, translation_cache,
                   translation_model, translation_tokenizer, cache_file, steps, model_loads,
                   file_writes>>

(***************************************************************************)
(* Callers whose insertions bring the cache to ten entries, statement by   *)
(* statement from the insertion on: the insertion, the test of the length, *)
(* and the save, which opens the file, takes the items of the dict one by  *)
(* one and closes the file.  The library is not installed here, so what    *)
(* comes before the insertion reads the cache once and is computed from    *)
(* the text alone.  The dump is far shorter than the buffer of the file    *)
(* object (8192 bytes), so the bytes reach the file when it is closed.     *)
(***************************************************************************)
SaveTexts == {"Contract", "Summary"}

\* the nine entries of an assistant that has translated the other keys of
\* the Hindi phrase table
WarmTexts ==
    {Get(sample_phrases, "hi")[i][1] : i \in 1..Len(Get(sample_phrases, "hi"))} \ SaveTexts

WarmCache ==
    [cache_key \in {CacheKey(text, "hi") : text \in WarmTexts} |->
        LET text == CHOOSE t \in WarmTexts : CacheKey(t, "hi") = cache_key
        IN Get(Get(sample_phrases, "hi"), text)]

InitWarm ==
    /\ call = NoCall
    /\ ret = Returned(<<>>)
    /\ clock = 0
    /\ tempFiles = {TranslatedAudioPath("hi", 0)}
    /\ transformers = FALSE
    /\ translation_cache = WarmCache
    /\ translation_model = "None"
    /\ translation_tokenizer = "None"
    /\ cache_file = NoFile
    /\ steps = <<>>
    /\ model_loads = 0
    /\ file_writes = 0
    /\ callers = NoCallers

\* the caller enters: the lookup in the cache and, on a miss, the fallback
StartTranslation(c) ==
    /\ ~Inside(c)
    /\ \E text \in SaveTexts :
        LET cache_key == CacheKey(text, "hi")
            hit == CacheHit(cache_key)
            translated == IF hit THEN translation_cache[cache_key]
                          ELSE DictionaryFallback(text, "hi")
        IN callers' = callers @@
                (c :> [pc |-> IF ~hit /\ Cacheable(translated) THEN "insert" ELSE "audio",
                       text |-> text,
                       target_lang |-> "hi",
                       translated |-> translated,
                       size |-> 0,
                       dumped |-> 0,
                       buffer |-> <<>>,
                       ret |-> Returned(<<>>)])
    /\ UNCHANGED <<call, ret, clock, tempFiles, transformers, translation_cache,
                   translation_model, translation_tokenizer, cache_file, steps, model_loads,
                   file_writes>>

\* self.translation_cache[cache_key] = translated_text
InsertTranslation(c) ==
    /\ At(c, "insert")
    /\ translation_cache' = Put(translation_cache,
                                CacheKey(callers[c].text, callers[c].target_lang),
                                callers[c].translated)
    /\ callers' = MovedTo(c, "count")
    /\ UNCHANGED <<call, ret, clock, tempFiles, transformers, translation_model,
                   translation_tokenizer, cache_file, steps, model_loads, file_writes>>

\* if len(self.translation_cache) % 10 == 0
TestCount(c) ==
    /\ At(c, "count")
    /\ callers' = MovedTo(c, IF DueForSave(translation_cache) THEN "open" ELSE "audio")
    /\ UNCHANGED <<call, ret, clock, tempFiles, transformers, translation_cache,
                   translation_model, translation_tokenizer, cache_file, steps, model_loads,
                   file_writes>>

\* open(self.cache_file, 'w') truncates the file; json.dump writes "{" and
\* starts to iterate over the dict
OpenCacheFile(c) ==
    /\ At(c, "open")
    /\ cache_file' = [exists |-> TRUE, content |-> <<>>]
    /\ callers' = [callers EXCEPT ![c].pc = "dump",
                                  ![c].size = Cardinality(DOMAIN translation_cache),
                                  ![c].dumped = 0,
                                  ![c].buffer = Utf8Encode(Chars("{"))]
    /\ UNCHANGED <<call, ret, clock, tempFiles, transformers, translation_cache,
                   translation_model, translation_tokenizer, steps, model_loads, file_writes>>

\* the next item of the dict: the iterator raises RuntimeError when the size
\* of the dict has changed since the iteration began, and the except of
\* _save_translation_cache swallows it; after the last item, "\n}"
DumpItem(c) ==
    /\ At(c, "dump")
    /\ LET order == KeyOrder(DOMAIN translation_cache)
           n == callers[c].dumped + 1
       IN callers' =
            IF Cardinality(DOMAIN translation_cache) # callers[c].size
            THEN MovedTo(c, "close")
            ELSE IF n > callers[c].size
            THEN [callers EXCEPT ![c].pc = "close",
                                 ![c].buffer = @ \o Utf8Encode(Chars("\n}"))]
            ELSE [callers EXCEPT ![c].dumped = n,
                                 ![c].buffer = @ \o WriteChunks(
                                        ItemChunks(translation_cache, <<order[n]>>, 1), 1)]
    /\ UNCHANGED <<call, ret, clock, tempFiles, transformers, translation_cache,
                   translation_model, translation_tokenizer, cache_file, steps, model_loads,
                   file_writes>>

\* the file is closed: the buffer is written from the start of the file,
\* over what another descriptor may have written there since the truncation
CloseCacheFile(c) ==
    /\ At(c, "close")
    /\ cache_file' =
            [exists |-> TRUE,
             content |-> callers[c].buffer
                            \o SubSeq(cache_file.content, Len(callers[c].buffer) + 1,
                                      Len(cache_file.content))]
    /\ file_writes' = file_writes + 1
    /\ callers' = MovedTo(c, "audio")
    /\ UNCHANGED <<call, ret, clock, tempFiles, transformers, translation_cache,
                   translation_model, translation_tokenizer, steps, model_loads>>

\* the placeholder if nothing was translated, the audio file and the return
WriteAudio(c) ==
    /\ At(c, "audio")
    /\ LET audio_path == TranslatedAudioPath(callers[c].target_lang, clock)
           translated_text == IF callers[c].translated = "" THEN Placeholder
                              ELSE callers[c].translated
       IN /\ tempFiles' = tempFiles \cup {audio_path}
          /\ callers' = [callers EXCEPT
                            ![c].pc = "done",
                            ![c].ret = Returned([translated_text |-> translated_text,
                                                 source_text |-> callers[c].text,
                                                 source_lang |-> "en",
                                                 target_lang |-> callers[c].target_lang,
                                                 audio_response |-> audio_path])]
    /\ UNCHANGED <<call, ret, clock, transformers, translation_cache, translation_model,
                   translation_tokenizer, cache_file, steps, model_loads, file_writes>>

(***************************************************************************)
(* Specifications.  Spec: calls of the four helpers; SpecQuery: calls of   *)
(* process_legal_query as time passes.                                     *)
(***************************************************************************)
Next ==
    \/ IdentifyDocumentType
    \/ ExtractLegalEntities
    \/ GetApplicableLaws
    \/ GenerateLegalAnalysis
    \/ Return

Spec == Init /\ [][Next]_vars

NextQuery == ProcessLegalQuery \/ Tick \/ Return

SpecQuery == Init /\ [][NextQuery]_vars

\* requests for translations without the library, one after the other
NextTranslate == TranslatePhrase \/ Return

SpecTranslate == Init /\ [][NextTranslate]_vars

\* the library may be installed
InitModel ==
    /\ NewAssistant
    /\ transformers \in BOOLEAN

NextModel == TranslateWithModel \/ Return

SpecModel == InitModel /\ [][NextModel]_vars

\* requests, saves of the cache and restarts
NextCache == TranslateEntry \/ SaveTranslationCache \/ Restart \/ Return

SpecCache == Init /\ [][NextCache]_vars

\* the first request of an assistant without the library
NextFirst == TranslateFirst \/ Return

SpecFirst == Init /\ [][NextFirst]_vars

\* two callers at a time, the library may be installed
NextConcurrent ==
    \/ \E c \in Callers : BeginTranslation(c)
    \/ \E c \in Callers : CheckTranslationModel(c)
    \/ \E c \in Callers : LoadTokenizer(c)
    \/ \E c \in Callers : LoadModel(c)
    \/ \E c \in Callers : FinishTranslation(c)
    \/ \E c \in Callers : Leave(c)

SpecConcurrent == InitModel /\ [][NextConcurrent]_vars

\* translations and analyses of documents, one after the other; the library
\* may be installed
NextFrame == TranslateFramed \/ QueryFramed \/ Return

SpecFrame == InitModel /\ [][NextFrame]_vars

\* an assistant without the library that fills its cache, analyses
\* documents and is started again
NextFill == TranslateNext \/ QueryFramed \/ Restart \/ Return

SpecFill == Init /\ [][NextFill]_vars

\* requests whose texts and languages hold the separator of the cache key,
\* made within a second or a second apart
KeyTexts == {"Summary_Contract", "Summary"}

KeyLanguages == {"hi", "Contract_hi"}

TranslateKeyed == HandleTranslationRequest(KeyTexts, KeyLanguages)

NextKeys == TranslateKeyed \/ Tick \/ Return

SpecKeys == Init /\ [][NextKeys]_vars

\* translations of composed contract analyses by an assistant without the
\* library: the analysis _generate_contract_analysis composes, its opening
\* with the first header after a bracketed note, and a phrase that is no
\* analysis; into a language with both tables and one with the sample
\* phrases only
AnalysisOpening ==
    "This document appears to be a legal contract. Here's a detailed analysis:\n\n"
        \o "1. Contract Structure and Validity:\n"

AnalysisTexts ==
    {_generate_contract_analysis(<<>>), "[Translation note] " \o AnalysisOpening, "Contract"}

AnalysisLanguages == {"hi", "bn"}

TranslateAnalysis == HandleTranslationRequest(AnalysisTexts, AnalysisLanguages)

NextAnalysis == TranslateAnalysis \/ Return

SpecAnalysis == Init /\ [][NextAnalysis]_vars

\* two callers at a time around the tenth entry of the cache
NextSaves ==
    \/ \E c \in Callers : StartTranslation(c)
    \/ \E c \in Callers : InsertTranslation(c)
    \/ \E c \in Callers : TestCount(c)
    \/ \E c \in Callers : OpenCacheFile(c)
    \/ \E c \in Callers : DumpItem(c)
    \/ \E c \in Callers : CloseCacheFile(c)
    \/ \E c \in Callers : WriteAudio(c)
    \/ \E c \in Callers : Leave(c)

SpecSaves == InitWarm /\ [][NextSaves]_vars

(***************************************************************************)
(* The claims.                                                             *)
(***************************************************************************)
Identified == call.op = "_identify_document_type"

NoPatternMatches(text) == \A k \in 1..Len(DocTypes) : MatchCount(text, k) = 0

\* the score of the k-th type of the table as the claims state it, in
\* hundredths of a match per word over the common denominator WordCount:
\* match_count / (word_count / 100), at most 1.0
ClaimedScore(text, k) == Min(100 * MatchCount(text, k), WordCount(text))

IndexOfType(doc_type) == CHOOSE k \in 1..Len(DocTypes) : DocTypes[k] = doc_type

\* C1: classifying the empty text returns the type unknown with confidence
\* 0.0, and no error is raised
C1_EmptyTextIsUnknown ==
    (Identified /\ call.text = <<>>) =>
        /\ ret.raised = "none"
        /\ ret.value.doc_type = "unknown"
        /\ RatEq(ret.value.confidence, RatZero)

\* C2: the confidence the classifier returns lies in [0,1] and is one of
\* the per-type scores match_count / (word_count / 100) capped at 1.0
C2_ConfidenceInUnitInterval ==
    (Identified /\ ret.raised = "none") =>
        LET c == ret.value.confidence
        IN /\ c.den > 0
           /\ 0 <= c.num
           /\ c.num <= c.den
           /\ \E k \in 1..Len(DocTypes) :
                c.num * WordCount(call.text) = ClaimedScore(call.text, k) * c.den

\* C2 witness: a returned confidence of 1.0 that the cap produced from a
\* score above 1
C2_Witness_CappedScore ==
    /\ Identified
    /\ ret.raised = "none"
    /\ RatEq(ret.value.confidence, RatOne)
    /\ 100 * MatchCount(call.text, IndexOfType(ret.value.doc_type)) > WordCount(call.text)

\* C3: the confidence is 0 exactly when the text is empty or no pattern
\* matches in it, and it is positive whenever some pattern matches
C3_ZeroExactlyWhenNoMatch ==
    Identified =>
        /\ ret.raised = "none"
        /\ (ret.value.confidence.num = 0) <=>
                (call.text = <<>> \/ NoPatternMatches(call.text))

\* C4: the classifier returns the type with the highest capped score, and
\* among the types that share it the first of the pattern table
C4_FirstHighestScoreWins ==
    (Identified /\ ret.raised = "none") =>
        LET r == IndexOfType(ret.value.doc_type)
        IN /\ ret.value.doc_type \in {DocTypes[k] : k \in 1..Len(DocTypes)}
           /\ \A j \in 1..Len(DocTypes) :
                ClaimedScore(call.text, j) <= ClaimedScore(call.text, r)
           /\ \A j \in 1..(r - 1) :
                ClaimedScore(call.text, j) < ClaimedScore(call.text, r)

\* C4 witness: a later type shares the highest score, which is positive,
\* with the type returned
C4_Witness_TieGoesToFirst ==
    /\ Identified
    /\ ret.raised = "none"
    /\ LET r == IndexOfType(ret.value.doc_type)
       IN /\ ClaimedScore(call.text, r) > 0
          /\ \E j \in (r + 1)..Len(DocTypes) :
                ClaimedScore(call.text, j) = ClaimedScore(call.text, r)

\* C5: a text with a contract keyword in which no other type has a higher
\* capped score than contract is classified contract, with confidence > 0
C5_ContractWithoutStrongerSignal ==
    (/\ Identified
     /\ MatchCount(call.text, 1) >= 1
     /\ \A k \in 2..Len(DocTypes) :
            ClaimedScore(call.text, k) <= ClaimedScore(call.text, 1)) =>
        /\ ret.raised = "none"
        /\ ret.value.doc_type = "contract"
        /\ ret.value.confidence.num > 0

\* C5 witness: contract is returned although another type has more matches,
\* the cap making the two scores equal
C5_Witness_ContractAmongEquals ==
    /\ Identified
    /\ ret.raised = "none"
    /\ ret.value.doc_type = "contract"
    /\ MatchCount(call.text, 1) >= 1
    /\ \E k \in 2..Len(DocTypes) : MatchCount(call.text, k) > MatchCount(call.text, 1)

\* C6: a text that is not empty (here: one that has words) and in which no
\* pattern matches is absorbed as an unknown-type result: process_legal_query
\* returns confidence_score 0, the label Legal Document, and a summary built
\* from the generic template
C6_GarbledTextIsUnknown ==
    (/\ call.op = "process_legal_query"
     /\ call.text # <<>>
     /\ WordCount(call.text) > 0
     /\ NoPatternMatches(call.text)) =>
        /\ ret.raised = "none"
        /\ ret.value.confidence_score.num = 0
        /\ ret.value.document_type = "Legal Document"
        /\ StartsWith(ret.value.summary,
                      "This appears to be a legal document. Based on the content, here's a general analysis:")

Extracted == call.op = "_extract_legal_entities"

\* the matches of a pattern that are not empty, from left to right
NonEmptyMatches(entity_type, text) ==
    SelectSeq(FindIter(entity_type, text), LAMBDA m : m # "")

\* C7: entity extraction returns at most 20 entries in all
C7_AtMostTwentyEntities == Extracted => Len(ret.value) <= 20

\* C7 witness: the patterns match more than 20 times, in more than one
\* category, and 20 entities are returned
C7_Witness_Truncated ==
    /\ Extracted
    /\ Len(ret.value) = 20
    /\ ret.value[1].entity # ret.value[20].entity
    /\ Len(NonEmptyMatches("date", call.text)) + Len(NonEmptyMatches("money", call.text))
          + Len(NonEmptyMatches("person", call.text))
          + Len(NonEmptyMatches("phone", call.text))
          + Len(NonEmptyMatches("email", call.text))
          + Len(NonEmptyMatches("clause", call.text))
          + Len(NonEmptyMatches("percentage", call.text)) > 20

\* the categories in the order the claim gives, with the tag of each
C8_Categories(doc_type) ==
    <<<<"date", "DATE">>, <<"money", "MONEY">>, <<"person", "PERSON">>,
      <<"organization", "ORGANIZATION">>, <<"address", "ADDRESS">>,
      <<"phone", "PHONE">>, <<"email", "EMAIL">>, <<"url", "URL">>,
      <<"clause", "CLAUSE">>, <<"percentage", "PERCENTAGE">>>>
    \o (CASE doc_type = "contract" ->
                <<<<"party", "PARTY">>, <<"effective_date", "EFFECTIVE_DATE">>,
                  <<"termination", "TERMINATION">>, <<"governing_law", "GOVERNING_LAW">>,
                  <<"indemnity", "INDEMNITY">>, <<"warranty", "WARRANTY">>>>
          [] doc_type = "judgment" ->
                <<<<"citation", "CITATION">>, <<"court", "COURT">>, <<"judge", "JUDGE">>,
                  <<"statute", "STATUTE">>>>
          [] OTHER -> <<>>)

RECURSIVE C8_MatchesBefore(_, _, _)
C8_MatchesBefore(cats, text, c) ==
    IF c <= 1 THEN 0
    ELSE C8_MatchesBefore(cats, text, c - 1) + Len(NonEmptyMatches(cats[c - 1][1], text))

\* C8: the entities are the first 20 of the matches taken category by
\* category in the order of the pattern table (the generic categories, then
\* those of a contract or of a judgment), within a category from left to
\* right, each tagged with the name of its category in upper case
C8_FirstTwentyInTableOrder ==
    Extracted =>
        LET cats == C8_Categories(call.doc_type)
            total == C8_MatchesBefore(cats, call.text, Len(cats) + 1)
        IN /\ Len(ret.value) = Min(20, total)
           /\ \A c \in 1..Len(cats) :
                LET ms == NonEmptyMatches(cats[c][1], call.text)
                    before == C8_MatchesBefore(cats, call.text, c)
                IN \A j \in 1..Len(ms) :
                    before + j <= 20 =>
                        ret.value[before + j] = [word |-> ms[j], entity |-> cats[c][2]]

\* C8 witness: a judgment whose first lines match the judgment categories
\* and whose later lines match generic ones: the generic entities come
\* first, and the cut at 20 falls inside the judgment categories
C8_Witness_SpecificCategoriesLast ==
    /\ Extracted
    /\ call.doc_type = "judgment"
    /\ Len(call.text) = 2
    /\ call.text[1].line = JudgeLine
    /\ call.text[2].line = EntityLine
    /\ Len(ret.value) = 20
    /\ ret.value[1] = [word |-> "12/31/2024", entity |-> "DATE"]
    /\ ret.value[20].entity = "CITATION"

LawsSelected == call.op = "_get_applicable_laws"

\* the statutes of the jurisdiction in the categories the claim maps the
\* document type to
C9_StatutesFor(doc_type, jurisdiction) ==
    LET cats == CASE doc_type \in {"contract", "notice", "legal_opinion"} -> {"civil", "commercial"}
                  [] doc_type \in {"judgment", "affidavit"} -> {"civil", "criminal"}
                  [] doc_type = "will" -> {"civil", "family"}
                  [] doc_type = "mou" -> {"commercial"}
                  [] OTHER -> {}
    IN IF jurisdiction \notin DOMAIN legal_frameworks THEN {}
       ELSE UNION {{legal_frameworks[jurisdiction][c][i] :
                        i \in 1..Len(legal_frameworks[jurisdiction][c])} :
                    c \in cats \cap DOMAIN legal_frameworks[jurisdiction]}

\* C9: _get_applicable_laws raises no error and returns at most 3 statutes,
\* pairwise distinct, each from the lists of the jurisdiction for the
\* categories of the document type; none for an unknown jurisdiction, for
\* legislation and for a document type without categories
C9_AtMostThreeDistinctStatutes ==
    LawsSelected =>
        /\ ret.raised = "none"
        /\ Len(ret.value) <= 3
        /\ \A i, j \in 1..Len(ret.value) : i # j => ret.value[i] # ret.value[j]
        /\ \A i \in 1..Len(ret.value) :
                ret.value[i] \in C9_StatutesFor(call.doc_type, call.jurisdiction)
        /\ (\/ call.jurisdiction \notin {"india", "us"}
            \/ call.doc_type \in {"legislation", "unknown", "deed"}) => ret.value = <<>>

\* C9 witness: three statutes sampled from more than three, of two
\* categories, not in the order of the lists
C9_Witness_SampleOfThree ==
    /\ LawsSelected
    /\ call.doc_type = "contract"
    /\ call.jurisdiction = "india"
    /\ ret.value = <<"Companies Act, 2013", "Indian Evidence Act, 1872",
                     "Code of Civil Procedure, 1908">>

Composed == call.op = "_generate_legal_analysis"

C10_ClaimedDisclaimer ==
    "DISCLAIMER: This analysis is provided for informational purposes only and should not be construed as legal advice."

\* C10 as stated: the composed analysis ends with the sentence
\* "DISCLAIMER: ... should not be construed as legal advice."
C10_EndsWithDisclaimerSentence ==
    Composed => EndsWith(ret.value, C10_ClaimedDisclaimer)

\* C10 amended: the composed analysis ends with the disclaimer paragraph,
\* which is that sentence followed by " Please consult with a qualified
\* legal professional for advice specific to your situation.", after a
\* blank line
C10_EndsWithDisclaimerParagraph ==
    Composed =>
        EndsWith(ret.value,
                 "\n\n" \o C10_ClaimedDisclaimer \o
                 " Please consult with a qualified legal professional for advice specific to your situation.")

\* C10 witness: an analysis of a contract with its template and a section
\* of three frameworks before the disclaimer
C10_Witness_LawsBeforeDisclaimer ==
    /\ Composed
    /\ call.doc_type = "contract"
    /\ StartsWith(ret.value, "This document appears to be a legal contract.")
    /\ Contains(ret.value, "3. Companies Act, 2013\n\n\nDISCLAIMER: ")

C11_SectionTitle == "Applicable legal frameworks that may be relevant:"

\* the statutes numbered consecutively from 1, one on a line
C11_Listing(laws) ==
    (IF Len(laws) >= 1 THEN "1. " \o laws[1] \o "\n" ELSE "") \o
    (IF Len(laws) >= 2 THEN "2. " \o laws[2] \o "\n" ELSE "") \o
    (IF Len(laws) >= 3 THEN "3. " \o laws[3] \o "\n" ELSE "")

\* what stands between the template and the disclaimer of an analysis
C11_Middle(analysis, doc_type, text) ==
    SubSeq(analysis, Len(AnalysisTemplate(doc_type, text)) + 1, Len(analysis) - Len(Disclaimer))

\* the section as the claim describes it, for a list of the selector
C11_Section(laws) ==
    IF laws = <<>> \/ Len(laws) > 3 THEN ""
    ELSE "\n\n" \o C11_SectionTitle \o "\n" \o C11_Listing(laws)

\* for each document type, the sections of the lists the selector can return
C11_Sections ==
    [doc_type \in AllDocTypes |->
        {C11_Section(laws) : laws \in _get_applicable_laws(doc_type, "india")}]

\* the document types for which the selector returns the empty list
C11_TypesWithoutLaws ==
    {doc_type \in AllDocTypes : <<>> \in _get_applicable_laws(doc_type, "india")}

\* C11: the composed analysis is the template, then the section, then the
\* disclaimer; the section is there if and only if the law selector returned
\* a list that is not empty for the document type, and it is the title
\* "Applicable legal frameworks that may be relevant:" followed by exactly
\* the selected statutes, numbered consecutively from 1 in the order of the
\* selector; without the section the title occurs nowhere in the analysis
C11_FrameworksSectionIffLaws ==
    Composed =>
        /\ StartsWith(ret.value, AnalysisTemplate(call.doc_type, call.text))
        /\ EndsWith(ret.value, Disclaimer)
        /\ Len(ret.value) >= Len(AnalysisTemplate(call.doc_type, call.text)) + Len(Disclaimer)
        /\ C11_Middle(ret.value, call.doc_type, call.text) \in C11_Sections[call.doc_type]
        /\ (C11_Middle(ret.value, call.doc_type, call.text) = "") <=>
                (call.doc_type \in C11_TypesWithoutLaws)
        /\ C11_Middle(ret.value, call.doc_type, call.text) = "" =>
                ~Contains(ret.value, C11_SectionTitle)

\* C11 witness: the analysis of a judgment lists three statutes of the civil
\* and criminal lists, in the order the selector drew them, between the
\* judgment template and the disclaimer
C11_Witness_NumberedSection ==
    /\ Composed
    /\ call.doc_type = "judgment"
    /\ C11_Middle(ret.value, "judgment", call.text) =
            "\n\nApplicable legal frameworks that may be relevant:\n" \o
            "1. Indian Penal Code, 1860\n2. Indian Evidence Act, 1872\n" \o
            "3. Code of Criminal Procedure, 1973\n"

\* the step is one of the steps of the trace
C12_Did(trace, step) == \E i \in 1..Len(trace) : trace[i] = step

Translated == call.op = "handle_translation_request"

\* C12: saving the cache with _save_translation_cache and loading the file on
\* a new instance reproduces the identical map, for every map the cache can
\* hold
C12_SaveThenLoadIsIdentity ==
    [][(call'.op = "__init__" /\ cache_file = _save_translation_cache(translation_cache))
            => translation_cache' = translation_cache]_vars

\* C13: once a call has stored a translation for (text, lang), the entry
\* stays as it is, and every later call with the same (text, lang) returns
\* that translation and reaches neither the model nor the dictionary fallback
C13_WarmCacheIsIdempotent ==
    [][/\ \A key \in DOMAIN translation_cache :
            /\ key \in DOMAIN translation_cache'
            /\ translation_cache'[key] = translation_cache[key]
       /\ (/\ call'.op = "handle_translation_request"
           /\ (call'.text \o "_" \o call'.language) \in DOMAIN translation_cache)
            => /\ ret'.raised = "none"
               /\ ret'.value.translated_text
                    = translation_cache[call'.text \o "_" \o call'.language]
               /\ ~C12_Did(steps', "load_model")
               /\ ~C12_Did(steps', "generate")
               /\ ~C12_Did(steps', "fallback")
               /\ translation_cache' = translation_cache]_vars

\* a later call gets from the cache the translation the model produced
C13_Witness_HitOnModelTranslation ==
    /\ Translated
    /\ call.text = "Contract"
    /\ call.language = "en"
    /\ steps = <<"cache_hit", "audio">>
    /\ ret.raised = "none"
    /\ ret.value.translated_text = "en: Contract"
    /\ translation_model = "loaded"

\* C14: on a cold cache and without the model, a text that is a key of the
\* phrase table of the language comes back as the value of the table, and the
\* cache then holds that value under the key of the call
C14_ExactMatchFallback ==
    (/\ Translated
     /\ HasKey(sample_phrases, call.language)
     /\ HasKey(Get(sample_phrases, call.language), call.text))
        => /\ ret.raised = "none"
           /\ ret.value.translated_text = Get(Get(sample_phrases, call.language), call.text)
           /\ translation_cache
                = ((call.text \o "_" \o call.language)
                        :> Get(Get(sample_phrases, call.language), call.text))

\* a key of the table that holds another key: replacing phrase by phrase
\* would give another text than the value of the table
C14_Witness_KeyHoldingAKey ==
    /\ Translated
    /\ call.text = "Indian Contract Act, 1872"
    /\ call.language = "hi"
    /\ ret.raised = "none"
    /\ ret.value.translated_text = Get(Get(sample_phrases, "hi"), "Indian Contract Act, 1872")
    /\ ReplaceEach("Indian Contract Act, 1872", Get(sample_phrases, "hi"), 1)
            # ret.value.translated_text
    /\ "Indian Contract Act, 1872_hi" \in DOMAIN translation_cache

\* C15: the cache file is written in the call whose insertion makes the
\* number of entries a multiple of 10, and in no other call: not on a hit,
\* not on an insertion to another count, not when nothing is inserted
C15_SavedExactlyAtMultiplesOfTen ==
    [][LET inserted == DOMAIN translation_cache' # DOMAIN translation_cache
           count == Cardinality(DOMAIN translation_cache')
       IN IF inserted /\ count % 10 = 0
          THEN /\ file_writes' = file_writes + 1
               /\ cache_file'.exists
               /\ _load_translation_cache(cache_file') = translation_cache'
               /\ C12_Did(steps', "save")
          ELSE /\ file_writes' = file_writes
               /\ cache_file' = cache_file
               /\ ~C12_Did(steps', "save")]_vars

\* the tenth entry has just been inserted and the file written
C15_Witness_SavedAtTen ==
    /\ Translated
    /\ C12_Did(steps, "insert")
    /\ C12_Did(steps, "save")
    /\ Cardinality(DOMAIN translation_cache) = 10
    /\ file_writes = 1
    /\ cache_file.exists

\* C16: handle_translation_request never lets an error out: it returns, and
\* translated_text is not empty
C16_TranslateNeverRaises ==
    Translated => /\ ret.raised = "none"
                  /\ ret.value.translated_text # ""

\* C17: process_legal_query returns a response for every text, the empty one
\* and the one of white space included
C17_QueryNeverRaises ==
    call.op = "process_legal_query"
        => /\ ret.raised = "none"
           /\ ret.value.language = call.language

\* C18: when the model gives no translation and the tables give none, the
\* placeholder is returned and the cache stays as it was; no value of the
\* cache is empty or the placeholder
C18_PlaceholderLeavesCacheUnchanged ==
    [][/\ (/\ call'.op = "handle_translation_request"
           /\ C12_Did(steps', "fallback")
           /\ DictionaryFallback(call'.text, call'.language) = "")
            => /\ ret'.raised = "none"
               /\ ret'.value.translated_text = Placeholder
               /\ translation_cache' = translation_cache
       /\ \A key \in DOMAIN translation_cache' :
            translation_cache'[key] \notin {"", Placeholder}]_vars

\* C19: in calls made one after the other the model is loaded at most once:
\* after a load nothing reloads or changes the handles, and a load that
\* fails leaves the handle of the model unset
C19_ModelLoadedAtMostOnce ==
    [][/\ model_loads' <= 1
       /\ translation_model = "loaded"
            => /\ translation_model' = "loaded"
               /\ translation_tokenizer' = translation_tokenizer
               /\ model_loads' = model_loads
       /\ (translation_model = "None" /\ translation_model' = "loaded")
            => /\ model_loads' = model_loads + 1
               /\ translation_tokenizer' = "loaded"
               /\ C12_Did(steps', "model_loaded")
       /\ (C12_Did(steps', "load_model") /\ ~C12_Did(steps', "model_loaded")
                /\ translation_model = "None")
            => /\ translation_model' = "None"
               /\ model_loads' = model_loads]_vars

\* a load failed after the tokenizer, and a later call loaded the model:
\* the call after that one generates without loading
C19_Witness_GeneratesWithoutReload ==
    /\ Translated
    /\ translation_model = "loaded"
    /\ model_loads = 1
    /\ C12_Did(steps, "load_model")
    /\ ~C12_Did(steps, "model_loaded")
    /\ C12_Did(steps, "generate")

\* C20: with callers inside handle_translation_request at the same time and
\* no model loaded, the model is loaded at most once
C20_ConcurrentCallersLoadOnce == model_loads <= 1

\* C21: with callers completing at the same time, the cache file, once no
\* write is in progress, holds one complete serialization of the map: it
\* parses, it has the ten entries or more of the map that was saved, and
\* each of its entries is an entry of the map in memory
C21_CacheFileIsComplete ==
    (cache_file.exists /\ \A c \in DOMAIN callers : callers[c].pc \notin {"dump", "close"})
        => LET loaded == JsonLoad(cache_file.content)
           IN /\ loaded.ok
              /\ Cardinality(DOMAIN loaded.value) >= SaveEvery
              /\ \A key \in DOMAIN loaded.value :
                    /\ key \in DOMAIN translation_cache
                    /\ translation_cache[key] = loaded.value[key]

\* C22: the load of the cache when an assistant is constructed never fails:
\* without a file, or with a file that does not parse, the map is empty, and
\* with a file that parses the map is the content of the file
C22_LoadNeverFails ==
    [][call'.op = "__init__"
        => /\ ret'.raised = "none"
           /\ translation_cache' =
                IF cache_file.exists /\ JsonLoad(cache_file.content).ok
                THEN JsonLoad(cache_file.content).value
                ELSE EmptyCache]_vars

\* an assistant has started on a file that a failed save left cut short
C22_Witness_StartedOnBrokenFile ==
    /\ call.op = "__init__"
    /\ ret.raised = "none"
    /\ cache_file.exists
    /\ ~JsonLoad(cache_file.content).ok
    /\ translation_cache = EmptyCache
    /\ file_writes > 0

\* C23: a key that is in the cache stays in it with the same value through
\* every call of handle_translation_request and of process_legal_query
C23_EntriesAreStable ==
    [][\A key \in DOMAIN translation_cache :
            /\ key \in DOMAIN translation_cache'
            /\ translation_cache'[key] = translation_cache[key]]_vars

\* the entry of the fallback is still there, and is what a call gets, after
\* the model was loaded and a document was analysed or a text translated
C23_Witness_FallbackEntryKept ==
    /\ Translated
    /\ call.text = "Contract"
    /\ call.language = "hi"
    /\ steps = <<"cache_hit", "audio">>
    /\ translation_model = "loaded"
    /\ translation_cache["Contract_hi"] = Get(Get(sample_phrases, "hi"), "Contract")
    /\ ret.value.translated_text = translation_cache["Contract_hi"]
    /\ \E path \in tempFiles : StartsWith(path, "temp/response_")

\* C26: when every write of the cache file succeeds, the entries of the file
\* are entries of the map in memory with the same values, and at most nine
\* entries of the map are missing from the file
C26_AtMostNineUnsaved ==
    LET disk == _load_translation_cache(cache_file)
    IN /\ \A key \in DOMAIN disk :
            /\ key \in DOMAIN translation_cache
            /\ translation_cache[key] = disk[key]
       /\ Cardinality(DOMAIN translation_cache \ DOMAIN disk) <= 9

\* nineteen entries in memory and the ten of the first save in the file
C26_Witness_NineUnsaved ==
    /\ Cardinality(DOMAIN translation_cache) = 19
    /\ cache_file.exists
    /\ Cardinality(DOMAIN _load_translation_cache(cache_file)) = 10
    /\ Cardinality(DOMAIN translation_cache \ DOMAIN _load_translation_cache(cache_file)) = 9
    /\ file_writes = 1

\* C30: the map in memory changes only in a call of
\* handle_translation_request that misses the cache and returns a
\* translation, which adds the entry of its own key and no other; a hit, a
\* placeholder and process_legal_query leave the map and the cache file as
\* they were
C30_OnlyColdTranslationsChangeTheCache ==
    [][/\ (call'.op = "handle_translation_request"
            /\ translation_cache' # translation_cache)
            => /\ (call'.text \o "_" \o call'.language) \notin DOMAIN translation_cache
               /\ ret'.raised = "none"
               /\ ret'.value.translated_text # Placeholder
               /\ DOMAIN translation_cache'
                    = DOMAIN translation_cache \cup {call'.text \o "_" \o call'.language}
               /\ translation_cache'[call'.text \o "_" \o call'.language]
                    = ret'.value.translated_text
               /\ \A key \in DOMAIN translation_cache :
                    translation_cache'[key] = translation_cache[key]
       /\ (call'.op = "handle_translation_request"
            /\ ((call'.text \o "_" \o call'.language) \in DOMAIN translation_cache
                    \/ ret'.value.translated_text = Placeholder))
            => /\ translation_cache' = translation_cache
               /\ cache_file' = cache_file
       /\ call'.op = "process_legal_query"
            => /\ translation_cache' = translation_cache
               /\ cache_file' = cache_file
       /\ call'.op \in {"init", "handle_translation_request", "process_legal_query"}
            => (translation_cache' # translation_cache
                    => call'.op = "handle_translation_request")]_vars

\* a miss has added the entry of its key to a cache whose file holds ten
\* entries, and the file is as it was
C30_Witness_OneEntryAdded ==
    /\ Translated
    /\ C12_Did(steps, "insert")
    /\ ~C12_Did(steps, "save")
    /\ Cardinality(DOMAIN translation_cache) = 11
    /\ (call.text \o "_" \o call.language) \in DOMAIN translation_cache
    /\ Cardinality(DOMAIN _load_translation_cache(cache_file)) = 10

\* C24: every call of handle_translation_request returns an audio path that
\* no earlier call has returned, so it writes a file that did not exist
C24_AudioPathIsFresh ==
    [][(call'.op = "handle_translation_request" /\ ret'.raised = "none")
            => ret'.value.audio_response \notin tempFiles]_vars

\* C27: a call that finds its key in the cache returns the translation of
\* its own text into its own language, never one stored for another text or
\* another language
C27_HitReturnsOwnTranslation ==
    (Translated /\ C12_Did(steps, "cache_hit"))
        => ret.value.translated_text = DictionaryFallback(call.text, call.language)

\* a call that missed the cache and translated a text with both markers
\* into a language that has a table of sample phrases
C25_AnalysisTranslated ==
    /\ Translated
    /\ C12_Did(steps, "fallback")
    /\ Contains(call.text, ContractMarker)
    /\ Contains(call.text, AnalysisMarker)
    /\ HasKey(sample_phrases, call.language)

\* the sample phrases replaced in the order of their table, and then, on the
\* text so changed, the section phrases of the language in the order of
\* theirs
C25_InTableOrder(text, target_lang) ==
    ReplaceEach(ReplaceEach(text, Get(sample_phrases, target_lang), 1),
                GetOr(analysis_translations, target_lang, <<>>), 1)

\* C25: a text with both markers, for a language with sample phrases, is
\* translated by replacing the sample phrases in table order and after them
\* the section phrases, if the language has some, and the result is returned
\* and stored in the cache whether or not it differs from the text
C25_SamplesThenSectionsAndCached ==
    C25_AnalysisTranslated
        => /\ ret.value.translated_text = C25_InTableOrder(call.text, call.language)
           /\ CacheKey(call.text, call.language) \in DOMAIN translation_cache
           /\ translation_cache[CacheKey(call.text, call.language)]
                = C25_InTableOrder(call.text, call.language)

\* C28: in the translation of a contract analysis into a language with both
\* tables, every key of the section table that occurs in the English text
\* has been replaced by its translation
C28_EveryHeaderTranslated ==
    (C25_AnalysisTranslated /\ HasKey(analysis_translations, call.language))
        => \A i \in 1..Len(Get(analysis_translations, call.language)) :
                LET section == Get(analysis_translations, call.language)[i]
                IN Contains(call.text, section[1])
                        => Contains(ret.value.translated_text, section[2])

\* a text of 1 to 100 words in which some pattern matches has been classified
C29_ShortTextWithMatch ==
    /\ Identified
    /\ WordCount(call.text) >= 1
    /\ WordCount(call.text) <= 100
    /\ \E k \in 1..Len(DocTypes) : MatchCount(call.text, k) >= 1

\* C29: in a text of 1 to 100 words every type with a match has the score
\* 1.0 after the cap, and the classifier returns the first type of the
\* pattern table that has a match, with confidence exactly 1.0, however
\* many matches the other types have
C29_ShortTextSaturates ==
    C29_ShortTextWithMatch
        => /\ \A k \in 1..Len(DocTypes) :
                MatchCount(call.text, k) >= 1 => RatEq(Scores(call.text)[k], RatOne)
           /\ ret.raised = "none"
           /\ MatchCount(call.text, IndexOfType(ret.value.doc_type)) >= 1
           /\ \A j \in 1..(IndexOfType(ret.value.doc_type) - 1) : MatchCount(call.text, j) = 0
           /\ ret.value.confidence.num = ret.value.confidence.den

\* the type returned for a short text has fewer matches than a later type
C29_Witness_FewerMatchesWins ==
    /\ C29_ShortTextWithMatch
    /\ ret.raised = "none"
    /\ \E k \in (IndexOfType(ret.value.doc_type) + 1)..Len(DocTypes) :
            MatchCount(call.text, k) > MatchCount(call.text, IndexOfType(ret.value.doc_type))
====
